---- MODULE Spec2Model ----
(***************************************************************************)
(* A model of biz/platforms/github/webhook_handler.py: the pull-request   *)
(* and push handlers' remote-call sequences, the review-text splitter and *)
(* the diff-to-position mapper.                                           *)
(*                                                                         *)
(* Text is a sequence of one-character strings.  Multi-character literals *)
(* the code matches as a whole (the score markers, the section titles,    *)
(* the "Auto Review Result" prefix) are one element each.  Paths, SHAs    *)
(* and other opaque identifiers are plain strings.  Python's None is the  *)
(* string "None" for identifiers and NoneText for text.                   *)
(***************************************************************************)
EXTENDS Integers, Sequences, FiniteSets, TLC

--------------------------------------------------------------------------
(* Python values *)

None == "None"
NoneText == <<"None">>
EmptyDict == [k \in {} |-> None]
JsonNull == [json_null |-> TRUE]

IsNull(d) == "json_null" \in DOMAIN d
\* null where a list is expected
NoneList == <<JsonNull>>

\* dict.get(key, default)
Get(d, key, default) == IF key \in DOMAIN d THEN d[key] ELSE default

\* truth value of a str-or-None identifier
TruthyStr(s) == s # None /\ s # ""

\* truth value of a text-or-None
TruthyText(t) == t # NoneText /\ t # <<>>

--------------------------------------------------------------------------
(* Characters and str methods *)

WS == {" ", "\n", "\t"}
Digits == {"0", "1", "2", "3", "4", "5", "6", "7", "8", "9"}

DigitVal(c) ==
    CASE c = "0" -> 0 [] c = "1" -> 1 [] c = "2" -> 2 [] c = "3" -> 3
      [] c = "4" -> 4 [] c = "5" -> 5 [] c = "6" -> 6 [] c = "7" -> 7
      [] c = "8" -> 8 [] c = "9" -> 9

\* int() of a non-empty run of decimal digits
RECURSIVE DecimalValue(_)
DecimalValue(ds) ==
    IF ds = <<>> THEN 0
    ELSE 10 * DecimalValue(SubSeq(ds, 1, Len(ds) - 1)) + DigitVal(ds[Len(ds)])

\* the first index >= i whose character is outside S (Len(s) + 1 if none)
RECURSIVE SkipWhile(_, _, _)
SkipWhile(s, i, S) ==
    IF i <= Len(s) /\ s[i] \in S THEN SkipWhile(s, i + 1, S) ELSE i

From(s, i) == SubSeq(s, i, Len(s))

StartsWith(s, p) == Len(s) >= Len(p) /\ SubSeq(s, 1, Len(p)) = p

RECURSIVE RStrip(_)
RStrip(s) ==
    IF s # <<>> /\ s[Len(s)] \in WS THEN RStrip(SubSeq(s, 1, Len(s) - 1)) ELSE s

\* str.strip()
Strip(s) == RStrip(From(s, SkipWhile(s, 1, WS)))

\* str.split(sep) for a one-character separator
RECURSIVE SplitOn(_, _)
SplitOn(s, sep) ==
    IF \E i \in 1..Len(s) : s[i] = sep
    THEN LET i == CHOOSE k \in 1..Len(s) :
                    s[k] = sep /\ \A j \in 1..(k - 1) : s[j] # sep
         IN  <<SubSeq(s, 1, i - 1)>> \o SplitOn(From(s, i + 1), sep)
    ELSE <<s>>

\* str.splitlines(): no empty last line after a final line break
splitlines(s) ==
    IF s = <<>> THEN <<>>
    ELSE LET p == SplitOn(s, "\n")
         IN  IF p[Len(p)] = <<>> THEN SubSeq(p, 1, Len(p) - 1) ELSE p

Min(a, b) == IF a <= b THEN a ELSE b
Max(a, b) == IF a >= b THEN a ELSE b

--------------------------------------------------------------------------
(* PullRequestHandler._split_review_to_comments *)

\* "Auto Review Result", matched with re.IGNORECASE
AutoPrefix == {"Auto Review Result", "auto review result"}
\* [:：]
Colons == {":", "fullwidth-colon"}
\* (评分明细|总分)
ScoreMarkers == {"score-detail", "total-score"}
\* ['问题描述和优化建议', '问题描述', '优化建议']
SectionTitles == {<<"problem-and-suggestion">>, <<"problem">>, <<"suggestion">>}
\* [-*+]
BulletMarks == {"-", "*", "+"}
\* variant: a full-width period separates too
OrderedSeps_WithFullwidthPeriod == {".", "fullwidth-period", "ideographic-comma", ")"}

\* [\.、\)]
OrderedSeps == {".", "ideographic-comma", ")"}

\* re.sub(r'^\s*Auto Review Result[:：]\s*', '', text, flags=re.IGNORECASE)
StripAutoPrefix(text) ==
    LET i == SkipWhile(text, 1, WS)
    IN  IF i + 1 <= Len(text) /\ text[i] \in AutoPrefix /\ text[i + 1] \in Colons
        THEN From(text, SkipWhile(text, i + 2, WS))
        ELSE text

\* \s*#{0,6}\s*(评分明细|总分) matches at index i
ScoreBodyAt(text, i) ==
    LET a == SkipWhile(text, i, WS)
        b == SkipWhile(text, a, {"#"})
        c == SkipWhile(text, b, WS)
    IN  b - a <= 6 /\ c <= Len(text) /\ text[c] \in ScoreMarkers

\* re.search(r'(^|\n)\s*#{0,6}\s*(评分明细|总分)', text) matches from index p
ScoreMatchAt(text, p) ==
    \/ p = 1 /\ ScoreBodyAt(text, 1)
    \/ text[p] = "\n" /\ ScoreBodyAt(text, p + 1)

\* variant: the text is never truncated
TruncateScore_KeepAll(text) == text

\* text[:score_section_match.start()].strip() when the search matches
TruncateScore(text) ==
    LET hits == {p \in 1..Len(text) : ScoreMatchAt(text, p)}
    IN  IF hits = {} THEN text
        ELSE LET p == CHOOSE q \in hits : \A r \in hits : q <= r
             IN  Strip(SubSeq(text, 1, p - 1))

\* [line.strip() for line in text.splitlines() if line.strip()]
RECURSIVE StrippedLines(_, _)
StrippedLines(ls, i) ==
    IF i > Len(ls) THEN <<>>
    ELSE (IF Strip(ls[i]) # <<>> THEN <<Strip(ls[i])>> ELSE <<>>)
         \o StrippedLines(ls, i + 1)

\* re.match(r'^[-*+]\s+(.+)$', line)
BulletMatch(line) ==
    /\ Len(line) >= 3
    /\ line[1] \in BulletMarks
    /\ line[2] \in WS
    /\ SkipWhile(line, 2, WS) <= Len(line)

\* re.match(r'^\d+[\.、\)]\s*(.+)$', line)
OrderedMatch(line) ==
    LET d == SkipWhile(line, 1, Digits)
    IN  /\ d > 1
        /\ d <= Len(line)
        /\ line[d] \in OrderedSeps
        /\ SkipWhile(line, d + 1, WS) <= Len(line)

\* what one line appends to bullet_items
BulletItem(line) ==
    IF BulletMatch(line)
    THEN <<Strip(From(line, SkipWhile(line, 2, WS)))>>
    ELSE IF OrderedMatch(line)
    THEN <<Strip(From(line, SkipWhile(line, SkipWhile(line, 1, Digits) + 1, WS)))>>
    ELSE <<>>

RECURSIVE BulletItems(_, _)
BulletItems(lines, i) ==
    IF i > Len(lines) THEN <<>>
    ELSE BulletItem(lines[i]) \o BulletItems(lines, i + 1)

\* re.split(r'\n\s*\n', text)
RECURSIVE ReSplitBlank(_)
ReSplitBlank(text) ==
    LET starts == {i \in 1..Len(text) :
                      /\ text[i] = "\n"
                      /\ \E j \in (i + 1)..(SkipWhile(text, i + 1, WS) - 1) :
                            text[j] = "\n"}
    IN  IF starts = {} THEN <<text>>
        ELSE LET i == CHOOSE q \in starts : \A r \in starts : q <= r
                 e == SkipWhile(text, i + 1, WS)
                 nl == {k \in (i + 1)..(e - 1) : text[k] = "\n"}
                 j == CHOOSE q \in nl : \A r \in nl : q >= r
             IN  <<SubSeq(text, 1, i - 1)>> \o ReSplitBlank(From(text, j + 1))

\* re.sub(r'\s+', ' ', item)
RECURSIVE CollapseWS(_)
CollapseWS(s) ==
    IF s = <<>> THEN <<>>
    ELSE IF Head(s) \in WS
    THEN <<" ">> \o CollapseWS(From(s, SkipWhile(s, 1, WS)))
    ELSE <<Head(s)>> \o CollapseWS(Tail(s))

\* the paragraph loop over re.split(r'\n\s*\n', text)
RECURSIVE ParagraphComments(_, _)
ParagraphComments(blocks, i) ==
    IF i > Len(blocks) THEN <<>>
    ELSE LET item == Strip(blocks[i])
         IN  (IF item = <<>> \/ item[1] = "#" \/ item \in SectionTitles
              THEN <<>>
              ELSE <<CollapseWS(item)>>)
             \o ParagraphComments(blocks, i + 1)

split_review_to_comments(review_result) ==
    IF ~TruthyText(review_result) THEN <<>>
    ELSE LET text == StripAutoPrefix(Strip(review_result))
         IN  IF text = <<>> THEN <<>>
             ELSE LET body == TruncateScore(text)
                      bullet_items == BulletItems(StrippedLines(splitlines(body), 1), 1)
                  IN  IF bullet_items # <<>> THEN bullet_items
                      ELSE ParagraphComments(ReSplitBlank(body), 1)

--------------------------------------------------------------------------
(* PullRequestHandler._extract_comment_lines_from_diff and
   _extract_review_positions *)

\* current_new_line = None
NoLine == -1

\* re.match(r'@@ -\d+(?:,\d+)? \+(\d+)(?:,\d+)? @@', raw_line):
\* int(match.group(1)) if match else None
\* variant: the start of the old range, the first number of the header
HunkNewStart_OldStart(raw_line) ==
    LET a == 5
        b == SkipWhile(raw_line, a, Digits)
    IN  IF StartsWith(raw_line, <<"@", "@", " ", "-">>) /\ b > a
        THEN DecimalValue(SubSeq(raw_line, a, b - 1))
        ELSE NoLine

HunkNewStart(raw_line) ==
    LET a == 5
        b == SkipWhile(raw_line, a, Digits)
        b2 == SkipWhile(raw_line, b + 1, Digits)
        c == IF b <= Len(raw_line) /\ raw_line[b] = "," /\ b2 > b + 1 THEN b2 ELSE b
        d == c + 2
        e == SkipWhile(raw_line, d, Digits)
        e2 == SkipWhile(raw_line, e + 1, Digits)
        f == IF e <= Len(raw_line) /\ raw_line[e] = "," /\ e2 > e + 1 THEN e2 ELSE e
    IN  IF /\ StartsWith(raw_line, <<"@", "@", " ", "-">>)
           /\ b > a
           /\ StartsWith(From(raw_line, c), <<" ", "+">>)
           /\ e > d
           /\ StartsWith(From(raw_line, f), <<" ", "@", "@">>)
        THEN DecimalValue(SubSeq(raw_line, d, e - 1))
        ELSE NoLine

\* variant: a line that is neither added nor deleted is recorded too
RECURSIVE ScanDiff_RecordsContext(_, _, _)
ScanDiff_RecordsContext(lines, i, current_new_line) ==
    IF i > Len(lines) THEN <<>>
    ELSE LET raw_line == lines[i]
         IN  IF StartsWith(raw_line, <<"@", "@">>)
             THEN ScanDiff_RecordsContext(lines, i + 1, HunkNewStart(raw_line))
             ELSE IF current_new_line = NoLine
             THEN ScanDiff_RecordsContext(lines, i + 1, current_new_line)
             ELSE IF StartsWith(raw_line, <<"-">>)
                     /\ ~StartsWith(raw_line, <<"-", "-", "-">>)
             THEN ScanDiff_RecordsContext(lines, i + 1, current_new_line)
             ELSE <<current_new_line>>
                    \o ScanDiff_RecordsContext(lines, i + 1, current_new_line + 1)

\* the loop over diff.splitlines()
RECURSIVE ScanDiff(_, _, _)
ScanDiff(lines, i, current_new_line) ==
    IF i > Len(lines) THEN <<>>
    ELSE LET raw_line == lines[i]
         IN  IF StartsWith(raw_line, <<"@", "@">>)
             THEN ScanDiff(lines, i + 1, HunkNewStart(raw_line))
             ELSE IF current_new_line = NoLine
             THEN ScanDiff(lines, i + 1, current_new_line)
             ELSE IF StartsWith(raw_line, <<"+">>)
                     /\ ~StartsWith(raw_line, <<"+", "+", "+">>)
             THEN <<current_new_line>> \o ScanDiff(lines, i + 1, current_new_line + 1)
             ELSE IF StartsWith(raw_line, <<"-">>)
                     /\ ~StartsWith(raw_line, <<"-", "-", "-">>)
             THEN ScanDiff(lines, i + 1, current_new_line)
             ELSE ScanDiff(lines, i + 1, current_new_line + 1)

extract_comment_lines_from_diff(diff) ==
    IF ~TruthyText(diff) THEN <<>>
    ELSE ScanDiff(splitlines(diff), 1, NoLine)

\* change.get('new_path') or change.get('filename') or change.get('old_path')
ChangePath(change) ==
    IF TruthyStr(Get(change, "new_path", None)) THEN change.new_path
    ELSE IF TruthyStr(Get(change, "filename", None)) THEN change.filename
    ELSE Get(change, "old_path", None)

\* change.get('diff') or change.get('patch') or ''
ChangeDiff(change) ==
    IF TruthyText(Get(change, "diff", NoneText)) THEN change.diff
    ELSE IF TruthyText(Get(change, "patch", NoneText)) THEN change.patch
    ELSE <<>>

RECURSIVE LinePositions(_, _, _)
LinePositions(path, lines, i) ==
    IF i > Len(lines) THEN <<>>
    ELSE <<[path |-> path, line |-> lines[i]]>> \o LinePositions(path, lines, i + 1)

RECURSIVE ReviewPositionsFrom(_, _)
ReviewPositionsFrom(changes, i) ==
    IF i > Len(changes) THEN <<>>
    ELSE (IF ~TruthyStr(ChangePath(changes[i])) THEN <<>>
          ELSE LinePositions(ChangePath(changes[i]),
                             extract_comment_lines_from_diff(ChangeDiff(changes[i])), 1))
         \o ReviewPositionsFrom(changes, i + 1)

extract_review_positions(changes) == ReviewPositionsFrom(changes, 1)

--------------------------------------------------------------------------
(* filter_changes *)

\* the characters of the paths the model uses
PathText(path) ==
    CASE path = "biz/demo.py" -> <<"b", "i", "z", "/", "d", "e", "m", "o", ".", "p", "y">>
      [] path = "biz/other.py" -> <<"b", "i", "z", "/", "o", "t", "h", "e", "r", ".", "p", "y">>
      [] path = "biz/old.py" -> <<"b", "i", "z", "/", "o", "l", "d", ".", "p", "y">>
      [] path = "logo.png" -> <<"l", "o", "g", "o", ".", "p", "n", "g">>
      [] OTHER -> <<>>

\* str.endswith
EndsWith(s, suffix) ==
    Len(s) >= Len(suffix) /\ SubSeq(s, Len(s) - Len(suffix) + 1, Len(s)) = suffix

\* '.java,.py,.php'
DefaultExtensions ==
    <<".", "j", "a", "v", "a", ",", ".", "p", "y", ",", ".", "p", "h", "p">>

\* os.getenv('SUPPORTED_EXTENSIONS', '.java,.py,.php').split(',')
supported_extensions(environ) ==
    SplitOn(Get(environ, "SUPPORTED_EXTENSIONS", DefaultExtensions), ",")

\* re.match(r'@@ -\d+,\d+ \+0,0 @@', diff)
DeletionHeader(diff) ==
    LET a == 5
        b == SkipWhile(diff, a, Digits)
        c == SkipWhile(diff, b + 1, Digits)
    IN  /\ StartsWith(diff, <<"@", "@", " ", "-">>)
        /\ b > a
        /\ b <= Len(diff) /\ diff[b] = ","
        /\ c > b + 1
        /\ StartsWith(From(diff, c), <<" ", "+", "0", ",", "0", " ", "@", "@">>)

\* all(line.startswith('-') or not line for line in diff.split('\n')[1:])
OnlyDeletionLines(diff) ==
    LET diff_lines == Tail(SplitOn(diff, "\n"))
    IN  \A i \in 1..Len(diff_lines) :
           diff_lines[i] = <<>> \/ diff_lines[i][1] = "-"

\* the change is skipped by the first loop
IsDeletion(change) ==
    \/ Get(change, "status", None) = "removed"
    \/ LET diff == Get(change, "diff", <<>>)
       IN  TruthyText(diff) /\ DeletionHeader(diff) /\ OnlyDeletionLines(diff)

RECURSIVE NotDeleted(_, _)
NotDeleted(cs, i) ==
    IF i > Len(cs) THEN <<>>
    ELSE (IF IsDeletion(cs[i]) THEN <<>> ELSE <<cs[i]>>) \o NotDeleted(cs, i + 1)

\* any(item.get('new_path', '').endswith(ext) for ext in supported_extensions)
Supported(item, exts) ==
    \E k \in 1..Len(exts) : EndsWith(PathText(Get(item, "new_path", "")), exts[k])

\* item.get('new_path', '') is None (AttributeError on .endswith), or the
\* item passes the test without a 'new_path' key (KeyError on item['new_path'])
ProjectionRaises(item, exts) ==
    \/ Get(item, "new_path", "") = None
    \/ "new_path" \notin DOMAIN item /\ Supported(item, exts)

\* one element of filtered_changes
Projection(item) ==
    [diff |-> Get(item, "diff", <<>>),
     new_path |-> item.new_path,
     additions |-> Get(item, "additions", 0),
     deletions |-> Get(item, "deletions", 0)]

RECURSIVE Projections(_, _, _)
Projections(items, exts, i) ==
    IF i > Len(items) THEN <<>>
    ELSE (IF Supported(items[i], exts) THEN <<Projection(items[i])>> ELSE <<>>)
         \o Projections(items, exts, i + 1)

\* filter_changes raises instead of returning
FilterChangesRaises(cs, environ) ==
    LET kept == NotDeleted(cs, 1)
    IN  \E i \in 1..Len(kept) : ProjectionRaises(kept[i], supported_extensions(environ))

filter_changes(cs, environ) ==
    Projections(NotDeleted(cs, 1), supported_extensions(environ), 1)

--------------------------------------------------------------------------
(* The remote API: a call either raises in the transport (requests raises
   ConnectionError or Timeout) or yields a response with a status code and
   a JSON body *)

TransportError == [error |-> "ConnectionError"]
Raised(response) == "error" \in DOMAIN response
Resp(status, json) == [status |-> status, json |-> json]

--------------------------------------------------------------------------
(* Bounds and sample data *)

MaxCommits == 2
MaxBullets == 5
MaxChanges == 2
MaxDiffLines == 3
MaxHunkLines == 3
MaxReviewLines == 3

DiffDemo == <<"@", "@", " ", "-", "1", ",", "2", " ", "+", "1", ",", "4", " ", "@", "@", "\n", " ", "l", "i", "n", "e", "1", "\n", "+", "l", "i", "n", "e", "2", "\n", "+", "l", "i", "n", "e", "3", "\n", "-", "l", "i", "n", "e", "4">>
DiffOneAdd == <<"@", "@", " ", "-", "7", " ", "+", "7", ",", "2", " ", "@", "@", "\n", " ", "x", "\n", "+", "y">>
DiffDeleteOnly == <<"@", "@", " ", "-", "1", ",", "2", " ", "+", "0", ",", "0", " ", "@", "@", "\n", "-", "a", "\n", "-", "b">>

FileDemo == [filename |-> "biz/demo.py", patch |-> DiffDemo, status |-> "modified",
             additions |-> 2, deletions |-> 1]
FileOther == [filename |-> "biz/other.py", patch |-> DiffOneAdd, additions |-> 1]
FileBinary == [filename |-> "logo.png", status |-> "added"]

FileLists == {<<>>, <<FileDemo>>, <<FileOther, FileBinary>>}

GetFailStatuses == {404, 500}
PostFailStatuses == {200, 403}

ListFilesResponses ==
    {Resp(200, fs) : fs \in FileLists}
      \cup {Resp(st, <<>>) : st \in GetFailStatuses} \cup {TransportError}

GithubCommits ==
    <<[sha |-> "c1", html_url |-> "u1",
       commit |-> [message |-> <<"f", "i", "x", "\n", "\n", "m", "o", "r", "e">>,
                   author |-> [name |-> "alice", email |-> "a@x", date |-> "d1"]]],
      [sha |-> "c2"]>>

ListCommitsResponses ==
    {Resp(200, <<>>), Resp(200, GithubCommits)}
      \cup {Resp(st, <<>>) : st \in GetFailStatuses} \cup {TransportError}

PostResponses ==
    {Resp(201, EmptyDict)} \cup {Resp(st, EmptyDict) : st \in PostFailStatuses}
      \cup {TransportError}

\* answers to the single-commit lookup: one parent, a merge commit's two
\* parents, a root commit, a parent without a sha, a body without parents, an
\* error status, a transport failure
LookupResponses ==
    {Resp(200, [parents |-> <<[sha |-> "p1"]>>]),
     Resp(200, [parents |-> <<[sha |-> "p1"], [sha |-> "p2"]>>]),
     Resp(200, [parents |-> <<>>]),
     Resp(200, [parents |-> <<[sha |-> ""]>>]),
     Resp(200, EmptyDict),
     Resp(404, EmptyDict),
     TransportError}

CompareResponses ==
    {Resp(200, [files |-> <<FileDemo>>]), Resp(200, [files |-> <<FileOther, FileBinary>>])}
      \cup {Resp(st, EmptyDict) : st \in GetFailStatuses} \cup {TransportError}

\* review texts: Bullets(k) is "- a\n- b\n..." with k items
Letters == <<"a", "b", "c", "d", "e", "f", "g", "h">>
RECURSIVE Bullets(_)
Bullets(k) ==
    IF k = 0 THEN <<>>
    ELSE (IF k = 1 THEN <<>> ELSE Bullets(k - 1) \o <<"\n">>) \o <<"-", " ", Letters[k]>>

ReviewOrdered ==
    <<"Auto Review Result", ":", "\n", "#", " ", "problem-and-suggestion", "\n",
      "1", ".", " ", "a", "\n", "2", ".", " ", "b", "\n", "\n",
      "#", " ", "score-detail", "\n", "-", " ", "c", "\n", "total-score", ":", " ", "8", "\n">>
ReviewParagraphs == <<" ", "a", " ", "b", "\n", "\n", "c", "\n">>
ReviewScoreOnly == <<"#", " ", "score-detail", "\n", "-", " ", "a", "\n">>
ReviewBlank == <<" ", "\n">>
\* two headings and a blank line between them
ReviewHeadings == <<"#", " ", "h", "\n", "\n", "#", "#", " ", "g", "\n">>
\* the default of GITHUB_PR_REVIEW_COMMENT_MAX_COUNT
DefaultMaxComments == 20
DefaultMaxCommentsText == <<"2", "0">>
\* one bullet more than the default maximum
RECURSIVE BulletLines(_)
BulletLines(k) ==
    IF k = 0 THEN <<>> ELSE <<"-", " ", "a", "\n">> \o BulletLines(k - 1)
ReviewManyBullets == BulletLines(DefaultMaxComments + 1)

ReviewTexts ==
    {NoneText, <<>>, ReviewBlank, ReviewOrdered, ReviewParagraphs, ReviewScoreOnly,
     ReviewHeadings}
      \cup {Bullets(k) : k \in 1..MaxBullets}

ChangeDemo == [new_path |-> "biz/demo.py", diff |-> DiffDemo, additions |-> 2, deletions |-> 1]
ChangeOther == [new_path |-> "biz/other.py", diff |-> DiffOneAdd, additions |-> 1, deletions |-> 0]
ChangeDeleted == [new_path |-> "biz/old.py", diff |-> DiffDeleteOnly, additions |-> 0, deletions |-> 2]
ChangeNoPath == [new_path |-> "", diff |-> DiffOneAdd, additions |-> 1, deletions |-> 0]

NotesArgs ==
    {[review_result |-> t] : t \in ReviewTexts \cup {ReviewManyBullets}}
      \cup {[review_result |-> t, changes |-> cs] :
              t \in ReviewTexts,
              cs \in {<<>>, <<ChangeDemo>>, <<ChangeOther, ChangeDemo>>,
                      <<ChangeDeleted, ChangeNoPath>>}}

PullRequestWebhooks ==
    {EmptyDict,
     [pull_request |-> [number |-> 99]],
     [pull_request |-> [number |-> 99, head |-> JsonNull]],
     [pull_request |-> [number |-> 99, head |-> [ref |-> "feature"]]],
     [pull_request |-> [number |-> 99, head |-> [sha |-> None]]],
     [pull_request |-> [number |-> 99, head |-> [sha |-> ""]]],
     [pull_request |-> [number |-> 99, head |-> [sha |-> "head_commit_sha"]]]}

Environments ==
    {EmptyDict} \cup
    {[GITHUB_PR_REVIEW_COMMENT_MAX_COUNT |-> v] :
        v \in {<<"2">>, <<"0">>, <<"-", "1">>, <<"x">>}}

CommitPool == {[id |-> "c1"], [id |-> "c2"], [message |-> "no id"]}

RECURSIVE SeqsUpTo(_, _)
SeqsUpTo(S, n) ==
    IF n = 0 THEN {<<>>}
    ELSE LET shorter == SeqsUpTo(S, n - 1)
         IN  shorter \cup {Append(q, x) : q \in shorter, x \in S}

ZeroRef == "0000000000000000000000000000000000000000"

\* change lists given to filter_changes
ChangeRemoved == [new_path |-> "biz/other.py", diff |-> DiffOneAdd, status |-> "removed",
                  additions |-> 0, deletions |-> 3]
ChangeImage == [new_path |-> "logo.png", diff |-> <<>>, status |-> "added"]
ChangeNullPath == [new_path |-> None, diff |-> DiffOneAdd]
ChangeNoKey == [diff |-> DiffOneAdd]

\* the patch of a deleted file of one line: the old range has no count
ChangeOneLineDeleted ==
    [new_path |-> "biz/old.py",
     diff |-> <<"@", "@", " ", "-", "1", " ", "+", "0", ",", "0", " ", "@", "@", "\n", "-", "a">>,
     additions |-> 0, deletions |-> 1]

FilterPool ==
    {ChangeDemo, ChangeOther, ChangeDeleted, ChangeRemoved, ChangeImage, ChangeNullPath,
     ChangeNoKey, ChangeOneLineDeleted}

FilterEnvironments ==
    {EmptyDict,
     [SUPPORTED_EXTENSIONS |-> <<".", "p", "n", "g", ",", ".", "p", "y">>],
     [SUPPORTED_EXTENSIONS |-> <<>>]}

FilterArgs == {[changes |-> cs] : cs \in SeqsUpTo(FilterPool, MaxChanges)}

\* lines of a unified diff: two hunk headers (new start 1 and 12), a
\* malformed header, a context line, a blank line, an added and a deleted
\* line, an added line "++x", a deleted line "--x" and the marker
\* "\ No newline at end of file"
HunkAtOne == <<"@", "@", " ", "-", "1", ",", "2", " ", "+", "1", ",", "2", " ", "@", "@">>
HunkAtTwelve == <<"@", "@", " ", "-", "7", " ", "+", "1", "2", " ", "@", "@", " ", "f">>
HunkMalformed == <<"@", "@", " ", "-", "1", ",", " ", "+", "2", " ", "@", "@">>
NoNewlineMarker == <<"\\", " ", "N", "o", " ", "n", "e", "w", "l", "i", "n", "e">>

HunkLines ==
    {<<" ", "c">>, <<>>, <<"+", "a">>, <<"-", "b">>, <<"+", "+", "+", "x">>,
     <<"-", "-", "-", "x">>, NoNewlineMarker}

DiffLinePool == {HunkAtOne, HunkAtTwelve, HunkMalformed} \cup HunkLines

\* '\n'.join(lines)
RECURSIVE JoinLines(_)
JoinLines(ls) ==
    IF ls = <<>> THEN <<>>
    ELSE IF Len(ls) = 1 THEN ls[1]
    ELSE ls[1] \o <<"\n">> \o JoinLines(Tail(ls))

Diffs == {NoneText} \cup {JoinLines(ls) : ls \in SeqsUpTo(DiffLinePool, MaxDiffLines)}

\* one hunk: a valid header, then hunk lines
HunkDiffs ==
    {JoinLines(<<h>> \o ls) :
        h \in {HunkAtOne, HunkAtTwelve}, ls \in SeqsUpTo(HunkLines, MaxHunkLines)}

\* lines of a review text: a plain line, bullets, ordered items with each
\* separator of the pattern and with a full-width period, an ordered marker
\* with nothing after it, a blank line, a heading, score lines, a line that
\* has the score marker in its middle, a bullet whose remainder is itself a
\* bullet or a heading, a section title, and the result prefix
ReviewLinePool ==
    {<<"a">>,
     <<"-", " ", "b">>,
     <<" ", "*", " ", "c", " ", " ", "d", " ">>,
     <<"1", ".", "e">>,
     <<"2", "ideographic-comma", " ", "f">>,
     <<"3", ")", "g">>,
     <<"4", "fullwidth-period", "h">>,
     <<"5", ".">>,
     <<>>,
     <<"#", " ", "i">>,
     <<"total-score", ":", "8">>,
     <<" ", "#", "#", " ", "score-detail">>,
     <<"j", " ", "total-score">>,
     <<"-", " ", "-", " ", "k">>,
     <<"+", " ", "#", " ", "l">>,
     <<"problem">>,
     <<"Auto Review Result", "fullwidth-colon", " ", "m">>}

SplitTexts ==
    {NoneText} \cup {JoinLines(ls) : ls \in SeqsUpTo(ReviewLinePool, MaxReviewLines)}

PositionsArgs ==
    {[changes |-> <<[new_path |-> "biz/demo.py", diff |-> d]>>] :
        d \in Diffs \cup HunkDiffs}
      \cup {[changes |-> cs] :
              cs \in {<<>>, <<ChangeOther, ChangeDemo>>, <<ChangeDeleted, ChangeNoPath>>,
                      <<[filename |-> "biz/other.py", patch |-> DiffOneAdd]>>,
                      <<[old_path |-> "biz/old.py", diff |-> NoneText]>>}}

\* a push payload: each key present or absent
PushWebhooks ==
    {b @@ a @@ c @@ d @@ m :
        b \in {EmptyDict, [before |-> ZeroRef], [before |-> "b1"]},
        a \in {EmptyDict, [after |-> "a1"]},
        c \in {EmptyDict, [created |-> TRUE]},
        d \in {EmptyDict, [deleted |-> TRUE]},
        m \in {EmptyDict} \cup {[commits |-> cs] : cs \in SeqsUpTo(CommitPool, MaxCommits)}}

\* payloads for the constructors: each field absent, null, or present
\* with its own fields absent, null or set; the number is kept as an
\* opaque identifier
PullRequestPayloads ==
    {p @@ r @@ a :
        p \in {EmptyDict, [pull_request |-> JsonNull], [pull_request |-> EmptyDict],
               [pull_request |-> [number |-> None]], [pull_request |-> [number |-> "99"]]},
        r \in {EmptyDict, [repository |-> JsonNull], [repository |-> EmptyDict],
               [repository |-> [full_name |-> None]],
               [repository |-> [full_name |-> "owner/repo"]]},
        a \in {EmptyDict, [action |-> None], [action |-> "opened"]}}

PushPayloads ==
    {r @@ f @@ m :
        r \in {EmptyDict, [repository |-> JsonNull], [repository |-> EmptyDict],
               [repository |-> [full_name |-> None]],
               [repository |-> [full_name |-> "owner/repo"]]},
        f \in {EmptyDict, [ref |-> None], [ref |-> "refs/heads/main"],
               [ref |-> "refs/tags/v1"]},
        m \in {EmptyDict, [commits |-> NoneList], [commits |-> <<>>],
               [commits |-> <<[id |-> "c1"]>>]}}

\* events handed to the handlers side by side: two pull requests of
\* different repositories, a push with two commits and a push without commits
EventPool ==
    {[kind |-> "PullRequestHandler",
      data |-> [repository |-> [full_name |-> "owner/repo"],
                pull_request |-> [number |-> "99"], action |-> "opened"]],
     [kind |-> "PullRequestHandler",
      data |-> [repository |-> [full_name |-> "other/repo"],
                pull_request |-> [number |-> "7"], action |-> "synchronize"]],
     [kind |-> "PushHandler",
      data |-> [repository |-> [full_name |-> "owner/repo"], ref |-> "refs/heads/main",
                commits |-> <<[id |-> "c1"], [id |-> "c2"]>>]],
     [kind |-> "PushHandler",
      data |-> [repository |-> [full_name |-> "other/repo"], ref |-> "refs/heads/main",
                commits |-> <<>>]]}

\* the message add_push_notes is called with
PushMessage == <<"o", "k">>

--------------------------------------------------------------------------
(* State *)

VARIABLES
    op,              \* the operation invoked on the handler
    webhook_data,    \* self.webhook_data
    args,            \* the operation's arguments
    env,             \* os.environ
    pc,              \* where the operation stands: "start", a call site, "done"
    outcome,         \* "none" while running, then "returned" or "raised"
    result,          \* the value returned
    calls,           \* the remote calls made (with the response each got) and the sleeps
    attempt,         \* get_pull_request_changes
    comments, positions, head_commit_id, index, success_count,  \* add_pull_request_notes
    before, changes, cidx, parent_id,                           \* get_push_changes
    handlers         \* the handler instances of events processed side by side

inputs == <<op, webhook_data, args, env>>
notesLocals == <<comments, positions, head_commit_id, index, success_count>>
pushLocals == <<before, changes, cidx, parent_id>>
vars == <<op, webhook_data, args, env, pc, outcome, result, calls, attempt,
          comments, positions, head_commit_id, index, success_count,
          before, changes, cidx, parent_id, handlers>>

PullRequestOps == {"get_pull_request_changes", "get_pull_request_commits",
                   "add_pull_request_notes"}
PushOps == {"get_push_changes", "get_parent_commit_id", "repository_compare",
            "add_push_notes"}

\* the module's functions
ModuleOps == {"filter_changes"}

OpArgs(o) ==
    CASE o = "add_pull_request_notes" -> NotesArgs
      [] o = "get_parent_commit_id" -> {[commit_id |-> "c1"]}
      [] o = "repository_compare" -> {[base |-> "b1", head |-> "a1"]}
      [] o = "add_push_notes" -> {[message |-> <<"o", "k">>]}
      [] o = "filter_changes" -> FilterArgs
      [] o = "extract_comment_lines_from_diff" -> {[diff |-> d] : d \in Diffs}
      [] o = "extract_review_positions" -> PositionsArgs
      [] o = "split_review_to_comments" -> {[review_result |-> t] : t \in SplitTexts}
      [] OTHER -> {EmptyDict}

\* no operation has started
Idle ==
    /\ pc = "start"
    /\ outcome = "none"
    /\ result = None
    /\ calls = <<>>
    /\ attempt = 0
    /\ comments = <<>>
    /\ positions = <<>>
    /\ head_commit_id = None
    /\ index = 0
    /\ success_count = 0
    /\ before = None
    /\ changes = <<>>
    /\ cidx = 0
    /\ parent_id = None

Init ==
    /\ op \in PullRequestOps \cup PushOps \cup ModuleOps
    /\ webhook_data \in (IF op \in PullRequestOps THEN PullRequestWebhooks
                         ELSE IF op \in PushOps THEN PushWebhooks
                         ELSE {EmptyDict})
    /\ args \in OpArgs(op)
    /\ env \in (IF op = "add_pull_request_notes" THEN Environments
                ELSE IF op = "filter_changes" THEN FilterEnvironments
                ELSE {EmptyDict})
    /\ Idle
    /\ handlers = <<>>

\* the static and class methods of PullRequestHandler that map a diff to
\* review positions, called on their own
MapperOps == {"extract_comment_lines_from_diff", "extract_review_positions"}

MapperInit ==
    /\ op \in MapperOps
    /\ webhook_data = EmptyDict
    /\ args \in OpArgs(op)
    /\ env = EmptyDict
    /\ Idle
    /\ handlers = <<>>

\* the constructors, called on a payload
ConstructOps == {"PullRequestHandler", "PushHandler"}

ConstructInit ==
    /\ op \in ConstructOps
    /\ webhook_data \in (IF op = "PullRequestHandler" THEN PullRequestPayloads
                         ELSE PushPayloads)
    /\ args = EmptyDict
    /\ env = EmptyDict
    /\ Idle
    /\ handlers = <<>>

\* the static method of PullRequestHandler that splits a review text,
\* called on its own
SplitterInit ==
    /\ op = "split_review_to_comments"
    /\ webhook_data = EmptyDict
    /\ args \in OpArgs(op)
    /\ env = EmptyDict
    /\ Idle
    /\ handlers = <<>>

\* return value
Return(value) == pc' = "done" /\ outcome' = "returned" /\ result' = value

\* an exception leaves the operation
Raise == pc' = "done" /\ outcome' = "raised" /\ UNCHANGED result

Continue(at) == pc' = at /\ UNCHANGED <<outcome, result>>

Call(name, request, response) == [call |-> name, request |-> request, resp |-> response]

--------------------------------------------------------------------------
(* PullRequestHandler.get_pull_request_changes *)

max_retries == 3
retry_delay == 10

\* one element of the changes list built from a file of the response
PullRequestChange(file) ==
    [old_path |-> Get(file, "filename", None),
     new_path |-> Get(file, "filename", None),
     diff |-> Get(file, "patch", <<>>),
     additions |-> Get(file, "additions", 0),
     deletions |-> Get(file, "deletions", 0)]

PullRequestChanges(files) == [i \in 1..Len(files) |-> PullRequestChange(files[i])]

\* mutant: any response counts as a success
ListFilesSucceeded_AnyStatus(response) == TRUE

\* response.status_code == 200
ListFilesSucceeded(response) == response.status = 200

\* the else branch of "if files": log and time.sleep(retry_delay)
SleepAfterEmpty == <<[call |-> "sleep", secs |-> retry_delay]>>

\* mutant: one attempt too many
MoreAttempts_OneMore(n) == n + 1 < 3 + 1

\* the attempts left after this one: for attempt in range(max_retries)
MoreAttempts(n) == n + 1 < max_retries

\* one pass of the retry loop.  self.event_type is set to 'pull_request' by
\* the constructor, so the guard on it at the top never returns.
ListFiles ==
    /\ op = "get_pull_request_changes"
    /\ pc \in {"start", "list_files"}
    /\ \E response \in ListFilesResponses :
        LET this == Call("list_files", EmptyDict, response)
        IN  IF Raised(response)
            THEN calls' = Append(calls, this) /\ Raise /\ UNCHANGED attempt
            ELSE IF ListFilesSucceeded(response)
            THEN IF response.json # <<>>
                 THEN /\ calls' = Append(calls, this)
                      /\ Return(PullRequestChanges(response.json))
                      /\ UNCHANGED attempt
                 ELSE /\ calls' = Append(calls, this) \o SleepAfterEmpty
                      /\ attempt' = attempt + 1
                      /\ IF MoreAttempts(attempt)
                         THEN Continue("list_files")
                         ELSE Return(<<>>)
            ELSE calls' = Append(calls, this) /\ Return(<<>>) /\ UNCHANGED attempt
    /\ UNCHANGED <<handlers, inputs, notesLocals, pushLocals>>

--------------------------------------------------------------------------
(* PullRequestHandler.get_pull_request_commits *)

\* commit.get('commit', {}).get('message', '')
CommitMessage(commit) == Get(Get(commit, "commit", EmptyDict), "message", <<>>)

\* commit.get('commit', {}).get('author', {})
CommitAuthor(commit) == Get(Get(commit, "commit", EmptyDict), "author", EmptyDict)

GitlabCommit(commit) ==
    [id |-> Get(commit, "sha", None),
     title |-> SplitOn(CommitMessage(commit), "\n")[1],
     message |-> CommitMessage(commit),
     author_name |-> Get(CommitAuthor(commit), "name", None),
     author_email |-> Get(CommitAuthor(commit), "email", None),
     created_at |-> Get(CommitAuthor(commit), "date", None),
     web_url |-> Get(commit, "html_url", None)]

ListCommits ==
    /\ op = "get_pull_request_commits"
    /\ pc = "start"
    /\ \E response \in ListCommitsResponses :
        /\ calls' = Append(calls, Call("list_commits", EmptyDict, response))
        /\ IF Raised(response) THEN Raise
           ELSE IF response.status = 200
           THEN Return([i \in 1..Len(response.json) |-> GitlabCommit(response.json[i])])
           ELSE Return(<<>>)
    /\ UNCHANGED <<handlers, inputs, attempt, notesLocals, pushLocals>>

--------------------------------------------------------------------------
(* PullRequestHandler.add_pull_request_notes and
   _add_pull_request_issue_comment *)

\* int(s) succeeds: optional blanks, an optional sign, decimal digits
IntParses(s) ==
    LET t == Strip(s)
        u == IF t # <<>> /\ t[1] \in {"-", "+"} THEN Tail(t) ELSE t
    IN  u # <<>> /\ SkipWhile(u, 1, Digits) > Len(u)

IntValue(s) ==
    LET t == Strip(s)
    IN  IF t[1] = "-" THEN 0 - DecimalValue(Tail(t))
        ELSE IF t[1] = "+" THEN DecimalValue(Tail(t))
        ELSE DecimalValue(t)

\* int(os.environ.get('GITHUB_PR_REVIEW_COMMENT_MAX_COUNT', '20')), 20 on ValueError
max_comments(environ) ==
    LET raw == Get(environ, "GITHUB_PR_REVIEW_COMMENT_MAX_COUNT", DefaultMaxCommentsText)
    IN  IF IntParses(raw) THEN IntValue(raw) ELSE DefaultMaxComments

\* comments = split(review_result), or [review_result.strip()] when that is
\* empty and review_result is not
InitialComments(review_result) ==
    LET split == split_review_to_comments(review_result)
    IN  IF split = <<>> /\ TruthyText(review_result)
        THEN <<Strip(review_result)>>
        ELSE split

\* variant: one comment more than the maximum
CapComments_OneMore(cs, environ) ==
    SubSeq(cs, 1, Min(Len(cs), Max(1, max_comments(environ)) + 1))

\* comments[:max(1, max_comments)]
CapComments(cs, environ) == SubSeq(cs, 1, Min(Len(cs), Max(1, max_comments(environ))))

\* .get('pull_request', {}).get('head', {}) is None: the .get('sha') on it
\* raises AttributeError
HeadLookupRaises(data) == IsNull(Get(Get(data, "pull_request", EmptyDict), "head", EmptyDict))

\* self.webhook_data.get('pull_request', {}).get('head', {}).get('sha')
HeadCommitId(data) ==
    Get(Get(Get(data, "pull_request", EmptyDict), "head", EmptyDict), "sha", None)

\* mutant: falls back only when both are missing
FallBackToIssueComment_Both(head, ps) == ~TruthyStr(head) /\ ps = <<>>

\* not head_commit_id or not positions
FallBackToIssueComment(head, ps) == ~TruthyStr(head) \/ ps = <<>>

\* mutant: no wraparound, the last position is reused
PositionFor_Clamped(ps, i) == ps[Min(i, Len(ps) - 1) + 1]

\* positions[index % len(positions)] (index counts from 0)
PositionFor(ps, i) == ps[(i % Len(ps)) + 1]

\* mutant: the comment is attached to the old side of the diff
InlineCommentData_LeftSide(comment, head, position) ==
    [body |-> comment, commit_id |-> head, path |-> position.path,
     line |-> position.line, side |-> "LEFT"]

\* data of lines 291-297
InlineCommentData(comment, head, position) ==
    [body |-> comment, commit_id |-> head, path |-> position.path,
     line |-> position.line, side |-> "RIGHT"]

\* mutant: any 2xx counts as delivered
Created_AnySuccess(response) == response.status \in {200, 201}

\* response.status_code == 201
Created(response) == response.status = 201

\* success_count == 0 after the loop
NoneDelivered(count) == count = 0

\* the body of the issue comment
IssueCommentData(review_result) == [body |-> review_result]

\* up to the first remote call
NotesStart ==
    /\ op = "add_pull_request_notes"
    /\ pc = "start"
    /\ LET all == InitialComments(args.review_result)
           ps == extract_review_positions(Get(args, "changes", <<>>))
       IN  IF all = <<>>
           THEN Return(None) /\ UNCHANGED notesLocals
           ELSE IF HeadLookupRaises(webhook_data)
           THEN /\ comments' = CapComments(all, env)
                /\ Raise
                /\ UNCHANGED <<positions, head_commit_id, index, success_count>>
           ELSE /\ comments' = CapComments(all, env)
                /\ head_commit_id' = HeadCommitId(webhook_data)
                /\ positions' = ps
                /\ index' = 0
                /\ success_count' = 0
                /\ IF FallBackToIssueComment(HeadCommitId(webhook_data), ps)
                   THEN Continue("issue_comment")
                   ELSE Continue("inline_comment")
    /\ UNCHANGED <<handlers, inputs, calls, attempt, pushLocals>>

\* one pass of the loop over enumerate(comments), and what follows the last
InlineComment ==
    /\ op = "add_pull_request_notes"
    /\ pc = "inline_comment"
    /\ \E response \in PostResponses :
        LET data == InlineCommentData(comments[index + 1], head_commit_id,
                                      PositionFor(positions, index))
            count == IF ~Raised(response) /\ Created(response)
                     THEN success_count + 1 ELSE success_count
        IN  /\ calls' = Append(calls, Call("inline_comment", data, response))
            /\ IF Raised(response)
               THEN Raise /\ UNCHANGED <<index, success_count>>
               ELSE /\ success_count' = count
                    /\ index' = index + 1
                    /\ IF index + 1 < Len(comments) THEN Continue("inline_comment")
                       ELSE IF NoneDelivered(count) THEN Continue("issue_comment")
                       ELSE Return(None)
    /\ UNCHANGED <<handlers, inputs, attempt, comments, positions, head_commit_id, pushLocals>>

\* _add_pull_request_issue_comment(review_result): the status is logged, and
\* nothing is returned either way
IssueComment ==
    /\ op = "add_pull_request_notes"
    /\ pc = "issue_comment"
    /\ \E response \in PostResponses :
        /\ calls' = Append(calls, Call("issue_comment",
                                       IssueCommentData(args.review_result), response))
        /\ IF Raised(response) THEN Raise ELSE Return(None)
    /\ UNCHANGED <<handlers, inputs, attempt, notesLocals, pushLocals>>

--------------------------------------------------------------------------
(* PushHandler *)

\* self.commit_list, set by parse_push_event
commit_list == Get(webhook_data, "commits", <<>>)

\* mutant: the last parent instead of the first
ParentCommitId_LastParent(response) ==
    IF response.status = 200 /\ Get(response.json, "parents", <<>>) # <<>>
    THEN Get(response.json.parents[Len(response.json.parents)], "sha", "")
    ELSE ""

\* get_parent_commit_id's value for a response of the single-commit lookup
ParentCommitId(response) ==
    IF response.status = 200 /\ Get(response.json, "parents", <<>>) # <<>>
    THEN Get(response.json.parents[1], "sha", "")
    ELSE ""

\* one element of repository_compare's diffs
CompareDiff(file) ==
    [old_path |-> Get(file, "filename", None),
     new_path |-> Get(file, "filename", None),
     diff |-> Get(file, "patch", <<>>),
     status |-> Get(file, "status", ""),
     additions |-> Get(file, "additions", 0),
     deletions |-> Get(file, "deletions", 0)]

\* repository_compare's value for a response of the compare call
CompareDiffs(response) ==
    IF response.status = 200
    THEN LET files == Get(response.json, "files", <<>>)
         IN  [i \in 1..Len(files) |-> CompareDiff(files[i])]
    ELSE <<>>

\* get_parent_commit_id(commit_id), called on its own
GetParentCommitId ==
    /\ op = "get_parent_commit_id"
    /\ pc = "start"
    /\ \E response \in LookupResponses :
        /\ calls' = Append(calls, Call("commit_lookup", [sha |-> args.commit_id], response))
        /\ IF Raised(response) THEN Raise ELSE Return(ParentCommitId(response))
    /\ UNCHANGED <<handlers, inputs, attempt, notesLocals, pushLocals>>

\* repository_compare(base, head), called on its own
RepositoryCompare ==
    /\ op = "repository_compare"
    /\ pc = "start"
    /\ \E response \in CompareResponses :
        /\ calls' = Append(calls, Call("compare", [base |-> args.base, head |-> args.head],
                                       response))
        /\ IF Raised(response) THEN Raise ELSE Return(CompareDiffs(response))
    /\ UNCHANGED <<handlers, inputs, attempt, notesLocals, pushLocals>>

\* if before and after
UseCompare(b, a) == TruthyStr(b) /\ TruthyStr(a)

\* the branch taken inside "if before and after": the created test comes
\* first, the deleted test is its elif
CompareBranch(data) ==
    IF Get(data, "created", FALSE) THEN "created"
    ELSE IF Get(data, "deleted", FALSE) THEN "deleted"
    ELSE "compare"

\* commit.get('id') is truthy
HasId(commit) == TruthyStr(Get(commit, "id", None))

\* the next commit of the loop, from position i on, that has an id
\* (Len(commit_list) + 1 when none is left)
RECURSIVE NextWithId(_, _)
NextWithId(cs, i) ==
    IF i > Len(cs) \/ HasId(cs[i]) THEN i ELSE NextWithId(cs, i + 1)

\* the per-commit loop moves on to position i
GoToCommit(i, collected) ==
    /\ cidx' = i
    /\ changes' = collected
    /\ IF i > Len(commit_list) THEN Return(collected) ELSE Continue("commit_lookup")

\* get_push_changes up to its first remote call.  self.event_type is set to
\* 'push' by the constructor, so the guard on it never returns.
PushChangesStart ==
    /\ op = "get_push_changes"
    /\ pc = "start"
    /\ LET b == Get(webhook_data, "before", "")
           a == Get(webhook_data, "after", "")
       IN  IF commit_list = <<>>
           THEN Return(<<>>) /\ UNCHANGED pushLocals
           ELSE IF UseCompare(b, a)
           THEN /\ before' = b
                /\ UNCHANGED <<changes, cidx, parent_id>>
                /\ IF CompareBranch(webhook_data) = "created"
                   THEN IF HasId(commit_list[1])
                        THEN Continue("created_lookup")
                        ELSE Continue("compare")
                   ELSE IF CompareBranch(webhook_data) = "deleted"
                   THEN Return(<<>>)
                   ELSE Continue("compare")
           ELSE /\ before' = b
                /\ UNCHANGED parent_id
                /\ GoToCommit(NextWithId(commit_list, 1), <<>>)
    /\ UNCHANGED <<handlers, inputs, calls, attempt, notesLocals>>

\* created branch: parent_commit_id = self.get_parent_commit_id(first_commit_id)
CreatedLookup ==
    /\ op = "get_push_changes"
    /\ pc = "created_lookup"
    /\ \E response \in LookupResponses :
        /\ calls' = Append(calls, Call("commit_lookup", [sha |-> commit_list[1].id], response))
        /\ IF Raised(response) THEN Raise /\ UNCHANGED before
           ELSE /\ before' = IF TruthyStr(ParentCommitId(response))
                             THEN ParentCommitId(response) ELSE before
                /\ Continue("compare")
    /\ UNCHANGED <<handlers, inputs, attempt, notesLocals, changes, cidx, parent_id>>

\* return self.repository_compare(before, after)
Compare ==
    /\ op = "get_push_changes"
    /\ pc = "compare"
    /\ \E response \in CompareResponses :
        /\ calls' = Append(calls, Call("compare",
                                       [base |-> before, head |-> webhook_data.after],
                                       response))
        /\ IF Raised(response) THEN Raise ELSE Return(CompareDiffs(response))
    /\ UNCHANGED <<handlers, inputs, attempt, notesLocals, pushLocals>>

\* per-commit loop: parent_id = self.get_parent_commit_id(commit_id)
CommitLookup ==
    /\ op = "get_push_changes"
    /\ pc = "commit_lookup"
    /\ \E response \in LookupResponses :
        /\ calls' = Append(calls, Call("commit_lookup", [sha |-> commit_list[cidx].id],
                                       response))
        /\ IF Raised(response) THEN Raise /\ UNCHANGED <<parent_id, cidx, changes>>
           ELSE IF TruthyStr(ParentCommitId(response))
           THEN /\ parent_id' = ParentCommitId(response)
                /\ Continue("commit_compare")
                /\ UNCHANGED <<cidx, changes>>
           ELSE /\ UNCHANGED parent_id
                /\ GoToCommit(NextWithId(commit_list, cidx + 1), changes)
    /\ UNCHANGED <<handlers, inputs, attempt, notesLocals, before>>

\* per-commit loop: changes.extend(self.repository_compare(parent_id, commit_id))
CommitCompare ==
    /\ op = "get_push_changes"
    /\ pc = "commit_compare"
    /\ \E response \in CompareResponses :
        /\ calls' = Append(calls, Call("compare",
                                       [base |-> parent_id, head |-> commit_list[cidx].id],
                                       response))
        /\ IF Raised(response) THEN Raise /\ UNCHANGED <<cidx, changes>>
           ELSE GoToCommit(NextWithId(commit_list, cidx + 1),
                           changes \o CompareDiffs(response))
    /\ UNCHANGED <<handlers, inputs, attempt, notesLocals, before, parent_id>>

\* add_push_notes(message): nothing to post without a last commit id
\* (self.commit_list[-1].get('id'))
PushNotesSkips == commit_list = <<>> \/ ~HasId(commit_list[Len(commit_list)])

AddPushNotes ==
    /\ op = "add_push_notes"
    /\ pc = "start"
    /\ IF PushNotesSkips
       THEN Return(None) /\ UNCHANGED calls
       ELSE \E response \in PostResponses :
              /\ calls' = Append(calls, Call("commit_comment",
                                   [sha |-> commit_list[Len(commit_list)].id,
                                    body |-> args.message], response))
              /\ IF Raised(response) THEN Raise ELSE Return(None)
    /\ UNCHANGED <<handlers, inputs, attempt, notesLocals, pushLocals>>

--------------------------------------------------------------------------
(* filter_changes(changes) *)

FilterChanges ==
    /\ op = "filter_changes"
    /\ pc = "start"
    /\ IF FilterChangesRaises(args.changes, env) THEN Raise
       ELSE Return(filter_changes(args.changes, env))
    /\ UNCHANGED <<handlers, inputs, calls, attempt, notesLocals, pushLocals>>

--------------------------------------------------------------------------
(* _extract_comment_lines_from_diff(diff) and _extract_review_positions(changes),
   called on their own *)

ExtractCommentLines ==
    /\ op = "extract_comment_lines_from_diff"
    /\ pc = "start"
    /\ Return(extract_comment_lines_from_diff(args.diff))
    /\ UNCHANGED <<handlers, inputs, calls, attempt, notesLocals, pushLocals>>

ExtractReviewPositions ==
    /\ op = "extract_review_positions"
    /\ pc = "start"
    /\ Return(extract_review_positions(args.changes))
    /\ UNCHANGED <<handlers, inputs, calls, attempt, notesLocals, pushLocals>>

MapperNext == ExtractCommentLines \/ ExtractReviewPositions

MapperSpec == MapperInit /\ [][MapperNext]_vars

--------------------------------------------------------------------------
(* PullRequestHandler.__init__ and PushHandler.__init__, with
   parse_pull_request_event and parse_push_event *)

\* data.get(key, {}).get(...) on a null value raises AttributeError
NestedGetRaises(data, key) == IsNull(Get(data, key, EmptyDict))

\* self.webhook_data.get(key, {}).get(field)
NestedGet(data, key, field) == Get(Get(data, key, EmptyDict), field, None)

ParsePullRequestEventRaises(data) ==
    NestedGetRaises(data, "pull_request") \/ NestedGetRaises(data, "repository")

parse_pull_request_event(data) ==
    [pull_request_number |-> NestedGet(data, "pull_request", "number"),
     repo_full_name |-> NestedGet(data, "repository", "full_name"),
     action |-> Get(data, "action", None)]

\* ref.replace('refs/heads/', ''), for the refs of the payloads
WithoutHeadsPrefix(ref) == IF ref = "refs/heads/main" THEN "main" ELSE ref

\* self.webhook_data.get('ref', '').replace(...) on a null ref raises
ParsePushEventRaises(data) ==
    NestedGetRaises(data, "repository") \/ Get(data, "ref", "") = None

parse_push_event(data) ==
    [repo_full_name |-> NestedGet(data, "repository", "full_name"),
     branch_name |-> WithoutHeadsPrefix(Get(data, "ref", "")),
     commit_list |-> Get(data, "commits", <<>>)]

ConstructPullRequestHandler ==
    /\ op = "PullRequestHandler"
    /\ pc = "start"
    /\ IF ParsePullRequestEventRaises(webhook_data) THEN Raise
       ELSE Return(parse_pull_request_event(webhook_data))
    /\ UNCHANGED <<handlers, inputs, calls, attempt, notesLocals, pushLocals>>

ConstructPushHandler ==
    /\ op = "PushHandler"
    /\ pc = "start"
    /\ IF ParsePushEventRaises(webhook_data) THEN Raise
       ELSE Return(parse_push_event(webhook_data))
    /\ UNCHANGED <<handlers, inputs, calls, attempt, notesLocals, pushLocals>>

ConstructNext == ConstructPullRequestHandler \/ ConstructPushHandler

ConstructSpec == ConstructInit /\ [][ConstructNext]_vars

--------------------------------------------------------------------------
(* _split_review_to_comments(review_result), called on its own *)

SplitReview ==
    /\ op = "split_review_to_comments"
    /\ pc = "start"
    /\ Return(split_review_to_comments(args.review_result))
    /\ UNCHANGED <<handlers, inputs, calls, attempt, notesLocals, pushLocals>>

SplitterSpec == SplitterInit /\ [][SplitReview]_vars

--------------------------------------------------------------------------

Next ==
    \/ FilterChanges
    \/ ListFiles
    \/ ListCommits
    \/ NotesStart
    \/ InlineComment
    \/ IssueComment
    \/ GetParentCommitId
    \/ RepositoryCompare
    \/ PushChangesStart
    \/ CreatedLookup
    \/ Compare
    \/ CommitLookup
    \/ CommitCompare
    \/ AddPushNotes

Spec == Init /\ [][Next]_vars

\* get_pull_request_changes alone.  The handler is one thread of blocking
\* calls: each requests.get returns or raises and each sleep ends, so the
\* loop's next pass is always taken.
ChangesInit == Init /\ op = "get_pull_request_changes"
ChangesSpec == ChangesInit /\ [][ListFiles]_vars /\ WF_vars(ListFiles)

--------------------------------------------------------------------------
(* Two events processed side by side, each by a handler instance of its own.
   An instance is the attributes its constructor sets and the locals of the
   operation it runs: get_pull_request_changes for a pull request,
   add_push_notes for a push.  requests.get and requests.post block: a
   request is issued in one step and its response is received in a later
   one, and the other instance may run in between. *)

Instances == {1, 2}

\* webhook_data and the attributes parse_pull_request_event or
\* parse_push_event sets on self, with the locals of the operation
NewHandler(event) ==
    [kind |-> event.kind,
     webhook_data |-> event.data,
     attrs |-> IF event.kind = "PullRequestHandler"
               THEN parse_pull_request_event(event.data)
               ELSE parse_push_event(event.data),
     pc |-> "ready",
     attempt |-> 0,
     pending |-> <<>>,
     calls |-> <<>>,
     outcome |-> "none",
     result |-> <<None>>]

ConcurrentInit ==
    /\ op = "process_events"
    /\ webhook_data = EmptyDict
    /\ args \in {[events |-> <<a, b>>] : a \in EventPool, b \in EventPool}
    /\ env = EmptyDict
    /\ Idle
    /\ handlers = [e \in Instances |-> NewHandler(args.events[e])]

\* variant: the attributes and locals live on the class, where the first
\* instance put them
Self_FirstInstance(hs, e) == hs[1]

\* self: the instance the method runs on
Self(hs, e) == hs[e]

\* the URL of the list-files call
ListFilesRequest(h) ==
    [call |-> "list_files",
     request |-> [repo |-> h.attrs.repo_full_name, number |-> h.attrs.pull_request_number]]

\* the URL and the body of the commit comment
CommitCommentRequest(h, message) ==
    LET commits == h.attrs.commit_list
    IN  [call |-> "commit_comment",
         request |-> [repo |-> h.attrs.repo_full_name, sha |-> commits[Len(commits)].id,
                      body |-> message]]

\* add_push_notes returns before its call: no commit, or a last commit
\* without an id
HandlerSkips(h) ==
    /\ h.kind = "PushHandler"
    /\ \/ h.attrs.commit_list = <<>>
       \/ ~HasId(h.attrs.commit_list[Len(h.attrs.commit_list)])

Finished(h, how, value) ==
    [h EXCEPT !.pc = "done", !.outcome = how, !.result = <<value>>]

\* up to requests.get or requests.post: the request is on the wire and the
\* thread waits for the response
Issue(h) ==
    IF HandlerSkips(h) THEN Finished(h, "returned", None)
    ELSE [h EXCEPT !.pc = "awaiting",
                   !.pending = Append(@, IF h.kind = "PullRequestHandler"
                                         THEN ListFilesRequest(h)
                                         ELSE CommitCommentRequest(h, PushMessage))]

\* get_pull_request_changes from the response on: one pass of the retry loop
ReceiveListFiles(h, this, response) ==
    LET logged == [h EXCEPT !.calls = Append(@, this)]
    IN  IF Raised(response) THEN Finished(logged, "raised", None)
        ELSE IF ListFilesSucceeded(response)
        THEN IF response.json # <<>>
             THEN Finished(logged, "returned", PullRequestChanges(response.json))
             ELSE LET slept == [logged EXCEPT !.calls = @ \o SleepAfterEmpty,
                                              !.attempt = @ + 1]
                  IN  IF MoreAttempts(h.attempt)
                      THEN [slept EXCEPT !.pc = "ready"]
                      ELSE Finished(slept, "returned", <<>>)
        ELSE Finished(logged, "returned", <<>>)

\* add_push_notes from the response on: the status is logged, nothing is
\* returned
ReceiveCommitComment(h, this, response) ==
    LET logged == [h EXCEPT !.calls = Append(@, this)]
    IN  IF Raised(response) THEN Finished(logged, "raised", None)
        ELSE Finished(logged, "returned", None)

\* the response to the request on the wire arrives and the thread goes on
Receive(h, response) ==
    LET sent == h.pending[1]
        this == Call(sent.call, sent.request, response)
        waiting == [h EXCEPT !.pending = Tail(@)]
    IN  IF h.kind = "PullRequestHandler"
        THEN ReceiveListFiles(waiting, this, response)
        ELSE ReceiveCommitComment(waiting, this, response)

ResponsesTo(h) == IF h.kind = "PullRequestHandler" THEN ListFilesResponses ELSE PostResponses

\* instance e runs up to its next remote call
IssueRequest(e) ==
    /\ op = "process_events"
    /\ Self(handlers, e).pc = "ready"
    /\ handlers' = [handlers EXCEPT ![e] = Issue(Self(handlers, e))]
    /\ UNCHANGED <<inputs, pc, outcome, result, calls, attempt, notesLocals, pushLocals>>

\* instance e gets the response it waits for
ReceiveResponse(e) ==
    /\ op = "process_events"
    /\ Self(handlers, e).pc = "awaiting"
    /\ \E response \in ResponsesTo(Self(handlers, e)) :
          handlers' = [handlers EXCEPT ![e] = Receive(Self(handlers, e), response)]
    /\ UNCHANGED <<inputs, pc, outcome, result, calls, attempt, notesLocals, pushLocals>>

ConcurrentNext == \E e \in Instances : IssueRequest(e) \/ ReceiveResponse(e)

ConcurrentSpec == ConcurrentInit /\ [][ConcurrentNext]_vars

--------------------------------------------------------------------------
(* Reading the log of calls *)

CallsOf(name) == SelectSeq(calls, LAMBDA c : c.call = name)

Answered(c) == ~Raised(c.resp)
AnsweredWith(c, status) == Answered(c) /\ c.resp.status = status

\* the four-field change record (path, diff, additions, deletions) of a
\* file of a list-files or compare response
ChangeRecordOf(file) ==
    [new_path |-> file.filename,
     diff |-> IF "patch" \in DOMAIN file THEN file.patch ELSE <<>>,
     additions |-> IF "additions" \in DOMAIN file THEN file.additions ELSE 0,
     deletions |-> IF "deletions" \in DOMAIN file THEN file.deletions ELSE 0]

FourFields(record) ==
    [new_path |-> record.new_path, diff |-> record.diff,
     additions |-> record.additions, deletions |-> record.deletions]

\* the list res is the conversion of the files, in order
ConvertedFrom(res, files) ==
    /\ Len(res) = Len(files)
    /\ \A i \in 1..Len(files) : FourFields(res[i]) = ChangeRecordOf(files[i])

--------------------------------------------------------------------------
(* get_pull_request_changes: C1, C2 *)

EmptySuccess(c) == AnsweredWith(c, 200) /\ c.resp.json = <<>>
NonEmptySuccess(c) == AnsweredWith(c, 200) /\ c.resp.json # <<>>

C1_AtMostThreeAndKth ==
    op = "get_pull_request_changes" =>
        LET lf == CallsOf("list_files")
        IN  /\ Len(lf) <= 3
            /\ \A k \in 1..Len(lf) :
                  ((\A j \in 1..(k - 1) : EmptySuccess(lf[j])) /\ NonEmptySuccess(lf[k]))
                  => /\ k <= 3
                     /\ Len(lf) = k
                     /\ pc = "done"
                     /\ outcome = "returned"
                     /\ ConvertedFrom(result, lf[k].resp.json)

\* C1: get_pull_request_changes issues at most 3 list-files calls; when the
\* first k-1 responses are 200 with an empty list and the k-th is 200 with a
\* non-empty list, exactly k calls are made and the conversion of the k-th
\* response's files is returned; and the operation always ends.
C1_RetryUntilNonEmpty ==
    /\ []C1_AtMostThreeAndKth
    /\ (op = "get_pull_request_changes") ~> (pc = "done")

\* two empty successes, then files on the third attempt
C1_Witness ==
    /\ op = "get_pull_request_changes"
    /\ Len(CallsOf("list_files")) = 3
    /\ NonEmptySuccess(CallsOf("list_files")[3])
    /\ outcome = "returned"
    /\ Len(result) = 2

\* C2: the first non-200 list-files response ends the operation: it is the
\* last entry of the log (no call and no sleep follows it) and an empty list
\* is returned; three 200-empty responses also end with an empty list
\* returned, not with an error.
C2_ErrorStatusEndsWithEmptyList ==
    op = "get_pull_request_changes" =>
        /\ \A i \in 1..Len(calls) :
              (calls[i].call = "list_files" /\ Answered(calls[i])
                 /\ calls[i].resp.status # 200)
              => /\ i = Len(calls)
                 /\ pc = "done"
                 /\ outcome = "returned"
                 /\ result = <<>>
        /\ LET lf == CallsOf("list_files")
           IN  (Len(lf) = 3 /\ \A j \in 1..3 : EmptySuccess(lf[j]))
               => pc = "done" /\ outcome = "returned" /\ result = <<>>

\* an empty success, then a 404 on the second attempt
C2_Witness ==
    /\ op = "get_pull_request_changes"
    /\ Len(CallsOf("list_files")) = 2
    /\ EmptySuccess(CallsOf("list_files")[1])
    /\ AnsweredWith(CallsOf("list_files")[2], 404)
    /\ pc = "done"

--------------------------------------------------------------------------
(* add_pull_request_notes: C3, C4, C5, C6 *)

InlineCalls == CallsOf("inline_comment")
IssueCalls == CallsOf("issue_comment")

\* the payload carries a non-empty pull_request.head.sha
HasHeadSha ==
    /\ "pull_request" \in DOMAIN webhook_data
    /\ "head" \in DOMAIN webhook_data.pull_request
    /\ "sha" \in DOMAIN webhook_data.pull_request.head
    /\ webhook_data.pull_request.head.sha \notin {None, ""}

\* the payload's pull_request.head is JSON null
HeadIsNull ==
    /\ "pull_request" \in DOMAIN webhook_data
    /\ "head" \in DOMAIN webhook_data.pull_request
    /\ "json_null" \in DOMAIN webhook_data.pull_request.head

NoPositions == extract_review_positions(Get(args, "changes", <<>>)) = <<>>

NonEmptyReview == args.review_result \notin {NoneText, <<>>}

\* every capped comment was sent inline and answered with a status other than 201
AllInlineRefused ==
    /\ InlineCalls # <<>>
    /\ Len(InlineCalls) = Len(comments)
    /\ \A i \in 1..Len(InlineCalls) :
          Answered(InlineCalls[i]) /\ InlineCalls[i].resp.status # 201

\* C3 as stated, for a call that has a review text to deliver and returns:
\* the aggregate comment is posted exactly when the head commit id is absent
\* or there is no review position, and in no other case.
C3_AggregateOnlyWithoutHeadOrPositions ==
    (op = "add_pull_request_notes" /\ pc = "done" /\ outcome = "returned"
        /\ NonEmptyReview)
    => (IssueCalls # <<>> <=> (~HasHeadSha \/ NoPositions))

\* C3 (amended): the aggregate comment is posted, once, exactly when the
\* review text is a non-empty string, the head commit id can be read, and the
\* head commit id is absent or empty, or there is no review position, or
\* every inline delivery was answered with a status other than 201; without a
\* head commit id or without positions no inline call is made.
C3_AggregateExactlyOnFallback ==
    op = "add_pull_request_notes" =>
        /\ Len(IssueCalls) <= 1
        /\ pc # "done" => IssueCalls = <<>>
        /\ pc = "done" =>
              (IssueCalls # <<>> <=>
                  /\ NonEmptyReview
                  /\ ~HeadIsNull
                  /\ (~HasHeadSha \/ NoPositions \/ AllInlineRefused))
        /\ (~HasHeadSha \/ NoPositions) => InlineCalls = <<>>

\* no head SHA, a review text, a change with positions: one aggregate call
C3_Witness ==
    /\ op = "add_pull_request_notes"
    /\ pc = "done"
    /\ ~HasHeadSha
    /\ ~NoPositions
    /\ Len(IssueCalls) = 1
    /\ InlineCalls = <<>>

\* the inline path was taken and every capped comment got a response
InlineAllAnswered ==
    /\ op = "add_pull_request_notes"
    /\ HasHeadSha
    /\ ~NoPositions
    /\ comments # <<>>
    /\ Len(InlineCalls) = Len(comments)
    /\ \A i \in 1..Len(InlineCalls) : Answered(InlineCalls[i])

\* C4: on the inline path, once every inline delivery has been answered: if
\* none returned 201 the aggregate comment is the next and last call, posted
\* once with the unsplit review text as body; if at least one returned 201
\* the operation returns without an aggregate comment.
C4_FallbackIffNoneCreated ==
    InlineAllAnswered =>
        IF \E i \in 1..Len(InlineCalls) : InlineCalls[i].resp.status = 201
        THEN pc = "done" /\ outcome = "returned" /\ IssueCalls = <<>>
        ELSE \/ pc = "issue_comment" /\ IssueCalls = <<>>
             \/ /\ pc = "done"
                /\ Len(IssueCalls) = 1
                /\ IssueCalls[1].request = [body |-> args.review_result]
                /\ calls[Len(calls)].call = "issue_comment"

\* several inline comments, all refused, then the aggregate comment
C4_Witness ==
    /\ InlineAllAnswered
    /\ Len(InlineCalls) >= 2
    /\ AllInlineRefused
    /\ Len(IssueCalls) = 1
    /\ pc = "done"

\* C5: the i-th inline request (from 0) carries the i-th capped comment as
\* body and the path and line of positions[i mod n]; with 2 positions and 5
\* comments the positions used are 0,1,0,1,0; a run that is answered
\* throughout sends one request per capped comment.
C5_PositionsWrapAround ==
    op = "add_pull_request_notes" =>
        /\ \A i \in 0..(Len(InlineCalls) - 1) :
              LET sent == InlineCalls[i + 1].request
                  n == Len(positions)
                  used == positions[(i % n) + 1]
              IN  /\ i < Len(comments)
                  /\ sent.body = comments[i + 1]
                  /\ sent.path = used.path
                  /\ sent.line = used.line
        /\ (Len(positions) = 2 /\ Len(InlineCalls) = 5) =>
              [i \in 1..5 |-> [path |-> InlineCalls[i].request.path,
                               line |-> InlineCalls[i].request.line]]
                = <<positions[1], positions[2], positions[1], positions[2], positions[1]>>
        /\ (pc = "done" /\ outcome = "returned" /\ InlineCalls # <<>>) =>
              Len(InlineCalls) = Len(comments)

\* five comments over two positions
C5_Witness ==
    /\ op = "add_pull_request_notes"
    /\ Len(positions) = 2
    /\ Len(comments) = 5
    /\ Len(InlineCalls) = 5
    /\ InlineCalls[5].request.line = positions[1].line
    /\ InlineCalls[4].request.line = positions[2].line

\* C6 as stated: when the aggregate comment is answered with a status other
\* than 201, add_pull_request_notes raises or returns a value other than the
\* one it returns on success (None).
C6_AggregateFailureSurfaced ==
    (/\ op = "add_pull_request_notes"
     /\ pc = "done"
     /\ IssueCalls # <<>>
     /\ Answered(IssueCalls[1])
     /\ IssueCalls[1].resp.status # 201)
    => (outcome = "raised" \/ result # None)

--------------------------------------------------------------------------
(* Transport failures: C7 *)

\* C7 as stated: when the transport fails on a call (timeout, connection
\* error), the operation returns as it does for a non-success status; no
\* error leaves the operation.
C7_TransportFailureReturnsEmpty ==
    (pc = "done" /\ calls # <<>> /\ calls[Len(calls)].call # "sleep"
        /\ Raised(calls[Len(calls)].resp))
    => outcome = "returned"

--------------------------------------------------------------------------
(* get_push_changes: C8, C9, C10 *)

LookupCalls == CallsOf("commit_lookup")
CompareCalls == CallsOf("compare")

NoCallRaised == \A i \in 1..Len(calls) : Answered(calls[i])

\* C8 as stated: for every push event with deleted = true, get_push_changes
\* issues no compare call and returns an empty list, whatever before, after,
\* created and the commit list are.
C8_DeletedPushComparesNothing ==
    (/\ op = "get_push_changes"
     /\ "deleted" \in DOMAIN webhook_data
     /\ webhook_data.deleted = TRUE
     /\ pc = "done"
     /\ outcome = "returned")
    => (CompareCalls = <<>> /\ result = <<>>)

\* the lookup resolved a parent: 200, a non-empty parents list, a first
\* parent with a non-empty sha
Resolved(c) ==
    /\ AnsweredWith(c, 200)
    /\ "parents" \in DOMAIN c.resp.json
    /\ c.resp.json.parents # <<>>
    /\ "sha" \in DOMAIN c.resp.json.parents[1]
    /\ c.resp.json.parents[1].sha \notin {None, ""}

\* the payload has neither before nor after
PerCommitMode ==
    /\ op = "get_push_changes"
    /\ "before" \notin DOMAIN webhook_data
    /\ "after" \notin DOMAIN webhook_data

PushedCommits == IF "commits" \in DOMAIN webhook_data THEN webhook_data.commits ELSE <<>>

\* the ids of the pushed commits that carry one, in push order
PushedIds ==
    LET withId == SelectSeq(PushedCommits, LAMBDA c : "id" \in DOMAIN c /\ c.id \notin {None, ""})
    IN  [i \in 1..Len(withId) |-> withId[i].id]

\* the files of the compare responses answered 200, concatenated in call order
RECURSIVE ComparedFiles(_, _)
ComparedFiles(cs, i) ==
    IF i > Len(cs) THEN <<>>
    ELSE (IF AnsweredWith(cs[i], 200) /\ "files" \in DOMAIN cs[i].resp.json
          THEN cs[i].resp.json.files ELSE <<>>)
         \o ComparedFiles(cs, i + 1)

\* the per-commit discipline of the log, for the commits whose ids are ids:
\* the k-th lookup asks for the k-th id; a compare follows a lookup exactly
\* when that lookup resolved a parent, and compares that parent with the
\* looked-up commit; once the operation has returned, every id was looked up
\* and the result is the concatenation of the compare results.
PerCommitDiscipline(ids) ==
    /\ Len(LookupCalls) <= Len(ids)
    /\ \A k \in 1..Len(LookupCalls) : LookupCalls[k].request.sha = ids[k]
    /\ \A i \in 1..Len(calls) :
          /\ calls[i].call \in {"commit_lookup", "compare"}
          /\ calls[i].call = "compare" =>
                /\ i > 1
                /\ calls[i - 1].call = "commit_lookup"
                /\ Resolved(calls[i - 1])
                /\ calls[i].request.base = calls[i - 1].resp.json.parents[1].sha
                /\ calls[i].request.head = calls[i - 1].request.sha
          /\ (calls[i].call = "commit_lookup" /\ Resolved(calls[i])) =>
                IF i = Len(calls) THEN pc = "commit_compare"
                ELSE calls[i + 1].call = "compare"
          /\ (i < Len(calls)) => Answered(calls[i])
    /\ (pc = "done" /\ NoCallRaised) =>
          /\ outcome = "returned"
          /\ Len(LookupCalls) = Len(ids)
          /\ ConvertedFrom(result, ComparedFiles(CompareCalls, 1))

\* C9 as stated: without before and after, every pushed commit gets one
\* single-commit lookup, in push order, under the per-commit discipline.
C9_OneLookupPerCommit ==
    PerCommitMode =>
        /\ PerCommitDiscipline(PushedIds)
        /\ (pc = "done" /\ NoCallRaised) => Len(LookupCalls) = Len(PushedCommits)

\* C9 (amended): without before and after, every pushed commit that carries
\* an id gets one single-commit lookup, in push order; a compare
\* parent...commit follows only a lookup answered 200 with a first parent;
\* the result is the concatenation of the compare results in commit order;
\* a lookup or compare answered with an error status contributes nothing and
\* the later commits are still processed.
C9_OneLookupPerCommitWithId == PerCommitMode => PerCommitDiscipline(PushedIds)

\* two commits: the first lookup fails, the second resolves and is compared
C9_Witness ==
    /\ PerCommitMode
    /\ pc = "done"
    /\ Len(calls) = 3
    /\ AnsweredWith(calls[1], 404)
    /\ calls[2].call = "commit_lookup"
    /\ calls[3].call = "compare"
    /\ Len(result) = 1

\* a branch-creation push with before and after refs whose first commit
\* carries an id
CreatedPush ==
    /\ op = "get_push_changes"
    /\ "created" \in DOMAIN webhook_data
    /\ webhook_data.created = TRUE
    /\ "before" \in DOMAIN webhook_data
    /\ "after" \in DOMAIN webhook_data
    /\ PushedCommits # <<>>
    /\ "id" \in DOMAIN PushedCommits[1]
    /\ PushedCommits[1].id \notin {None, ""}

\* C10 as stated: for a branch-creation push, get_push_changes issues one
\* lookup, of the first commit, and at most one compare; a compare follows
\* that lookup and its base is the parent SHA the lookup returned, never the
\* event's own before-ref; when the lookup returned a parent and every call
\* was answered, the calls are exactly that lookup and that compare.
C10_CreatedComparesFromParent ==
    CreatedPush =>
        /\ Len(LookupCalls) <= 1
        /\ Len(CompareCalls) <= 1
        /\ \A i \in 1..Len(calls) :
              calls[i].call = "compare" =>
                 /\ i = 2
                 /\ calls[1].call = "commit_lookup"
                 /\ calls[1].request.sha = PushedCommits[1].id
                 /\ Resolved(calls[1])
                 /\ calls[i].request.base = calls[1].resp.json.parents[1].sha
                 /\ calls[i].request.base # webhook_data.before
        /\ (pc = "done" /\ NoCallRaised /\ calls # <<>> /\ Resolved(calls[1])) =>
              Len(calls) = 2

--------------------------------------------------------------------------
(* Change lists: C11 *)

\* no two records of the list have the same path
DistinctPaths(cs) ==
    \A i, j \in 1..Len(cs) : i # j => cs[i].new_path # cs[j].new_path

\* C11 as stated: the change list returned by get_pull_request_changes and
\* by get_push_changes (compare path and per-commit path), and the list
\* filter_changes makes of it, have no two records with the same path.
C11_ChangeListsHaveDistinctPaths ==
    (/\ op \in {"get_pull_request_changes", "get_push_changes"}
     /\ pc = "done"
     /\ outcome = "returned")
    => /\ DistinctPaths(result)
       /\ ~FilterChangesRaises(result, env)
       /\ DistinctPaths(filter_changes(result, env))

--------------------------------------------------------------------------
(* Diff position mapper: C12, C13, C14 *)

\* the classes of diff lines, as the scan tells them apart: a hunk header
\* starts with "@@"; an addition starts with "+" and is not a "+++" line; a
\* deletion starts with "-" and is not a "---" line; any other line is a
\* context line
HeaderLine(l) == StartsWith(l, <<"@", "@">>)
AdditionLine(l) ==
    ~HeaderLine(l) /\ StartsWith(l, <<"+">>) /\ ~StartsWith(l, <<"+", "+", "+">>)
DeletionLine(l) ==
    ~HeaderLine(l) /\ StartsWith(l, <<"-">>) /\ ~StartsWith(l, <<"-", "-", "-">>)
ContextLine(l) == ~HeaderLine(l) /\ ~AdditionLine(l) /\ ~DeletionLine(l)

\* new start of the headers of the sample diffs; NoLine for a malformed one
NewStartOf(l) ==
    IF l = HunkAtOne THEN 1
    ELSE IF l = HunkAtTwelve THEN 12
    ELSE IF l = <<"@", "@", " ", "-", "1", ",", "2", " ", "+", "1", ",", "4", " ", "@", "@">> THEN 1
    ELSE IF l = <<"@", "@", " ", "-", "7", " ", "+", "7", ",", "2", " ", "@", "@">> THEN 7
    ELSE IF l = <<"@", "@", " ", "-", "1", ",", "2", " ", "+", "0", ",", "0", " ", "@", "@">> THEN 0
    ELSE NoLine

\* index of the last header before line i, 0 when there is none
LastHeader(ls, i) ==
    LET hs == {h \in 1..(i - 1) : HeaderLine(ls[h])}
    IN  IF hs = {} THEN 0 ELSE CHOOSE h \in hs : \A g \in hs : g <= h

\* line i follows a valid hunk header
Governed(ls, i) ==
    LastHeader(ls, i) # 0 /\ NewStartOf(ls[LastHeader(ls, i)]) # NoLine

\* the running new-line counter when line i is classified
CounterAt(ls, i) ==
    NewStartOf(ls[LastHeader(ls, i)])
      + Cardinality({j \in (LastHeader(ls, i) + 1)..(i - 1) :
                        AdditionLine(ls[j]) \/ ContextLine(ls[j])})

\* the addition lines that follow a valid hunk header
GovernedAdditions(ls) ==
    {i \in 1..Len(ls) : AdditionLine(ls[i]) /\ Governed(ls, i)}

\* the k-th element of a set of indices, in increasing order
Nth(S, k) == CHOOSE i \in S : Cardinality({j \in S : j <= i}) = k

CountersOfAdditions(ls) ==
    [k \in 1..Cardinality(GovernedAdditions(ls)) |->
        CounterAt(ls, Nth(GovernedAdditions(ls), k))]

\* the line numbers of a list of positions
LinesOf(ps) == [k \in 1..Len(ps) |-> ps[k].line]

\* the lines without the deletion lines
RECURSIVE WithoutDeletions(_)
WithoutDeletions(ls) ==
    IF ls = <<>> THEN <<>>
    ELSE (IF DeletionLine(ls[1]) THEN <<>> ELSE <<ls[1]>>) \o WithoutDeletions(Tail(ls))

\* C12: every line number recorded by _extract_comment_lines_from_diff is
\* the value of the running new-line counter (the new start of the last
\* valid hunk header plus one per addition and per context line since) at
\* its addition line; a deletion line gives no position and leaves the
\* counter unchanged; after a malformed header nothing is recorded until
\* the next valid header; an empty or header-less diff gives the empty list.
C12_RecordedLineIsRunningCounter ==
    (op = "extract_comment_lines_from_diff" /\ pc = "done") =>
        LET ls == IF TruthyText(args.diff) THEN splitlines(args.diff) ELSE <<>>
        IN  /\ outcome = "returned"
            /\ result = CountersOfAdditions(ls)
            /\ (\A i \in 1..Len(ls) : ~HeaderLine(ls[i])) => result = <<>>
            /\ result = extract_comment_lines_from_diff(JoinLines(WithoutDeletions(ls)))

\* witness: a valid header, a deletion and an addition recorded at the
\* header's new start
C12_Witness ==
    /\ op = "extract_comment_lines_from_diff"
    /\ pc = "done"
    /\ args.diff = JoinLines(<<HunkAtTwelve, <<"-", "b">>, <<"+", "a">>>>)
    /\ result = <<12>>

\* the old and new line counts of the headers of the sample diffs
OldCountOf(l) == IF l = HunkAtOne THEN 2 ELSE 1
NewCountOf(l) == IF l = HunkAtOne THEN 2 ELSE 1

\* the lines of a hunk by the unified format: the first character tells
\* whether the line is in the new file (" " or "+"; a blank line is a
\* context line), only in the old file ("-"), or the marker
\* "\ No newline at end of file"
InNewFile(l) == l = <<>> \/ (l # <<>> /\ l[1] \in {" ", "+"})
InOldFile(l) == l = <<>> \/ (l # <<>> /\ l[1] \in {" ", "-"})
OnlyInOldFile(l) == l # <<>> /\ l[1] = "-"

\* one hunk whose header is valid and whose line counts are those of the
\* header; a marker follows a line of the file
WellFormed(ls) ==
    /\ Len(ls) >= 2
    /\ NewStartOf(ls[1]) # NoLine
    /\ \A i \in 2..Len(ls) :
          /\ ls[i] \in HunkLines
          /\ ls[i] = NoNewlineMarker =>
                i > 2 /\ ls[i - 1] # NoNewlineMarker /\ ls[i - 1] # <<>>
    /\ Cardinality({i \in 2..Len(ls) : InOldFile(ls[i])}) = OldCountOf(ls[1])
    /\ Cardinality({i \in 2..Len(ls) : InNewFile(ls[i])}) = NewCountOf(ls[1])

\* the number line i of the hunk has in the new file
TrueNewLine(ls, i) ==
    NewStartOf(ls[1]) + Cardinality({j \in 2..(i - 1) : InNewFile(ls[j])})

\* the diff without the lines that are only in the old file
RECURSIVE WithoutOldLines(_)
WithoutOldLines(ls) ==
    IF ls = <<>> THEN <<>>
    ELSE (IF OnlyInOldFile(ls[1]) THEN <<>> ELSE <<ls[1]>>) \o WithoutOldLines(Tail(ls))

\* _extract_review_positions is called with one change that has a path and
\* the diff of a well-formed hunk
OneWellFormedChange ==
    /\ op = "extract_review_positions"
    /\ pc = "done"
    /\ Len(args.changes) = 1
    /\ "new_path" \in DOMAIN args.changes[1]
    /\ "diff" \in DOMAIN args.changes[1]
    /\ TruthyText(args.changes[1].diff)
    /\ WellFormed(splitlines(args.changes[1].diff))

\* C13 as stated: for a well-formed unified diff, every position returned
\* by _extract_review_positions has the true new-file line number of a line
\* of the new file, and a line that is only in the old file yields no
\* position and shifts no later position.
C13_PositionsAreTrueNewFileLines ==
    OneWellFormedChange =>
        LET ls == splitlines(args.changes[1].diff)
        IN  /\ outcome = "returned"
            /\ \A k \in 1..Len(result) :
                  \E i \in 2..Len(ls) :
                     InNewFile(ls[i]) /\ TrueNewLine(ls, i) = result[k].line
            /\ LinesOf(result)
                 = extract_comment_lines_from_diff(JoinLines(WithoutOldLines(ls)))

\* the number of addition lines after a valid hunk header, over the changes
\* that have a path
RECURSIVE AdditionCount(_, _)
AdditionCount(cs, i) ==
    IF i > Len(cs) THEN 0
    ELSE (IF TruthyStr(ChangePath(cs[i])) /\ TruthyText(ChangeDiff(cs[i]))
          THEN Cardinality(GovernedAdditions(splitlines(ChangeDiff(cs[i]))))
          ELSE 0) + AdditionCount(cs, i + 1)

\* C14: the positions recorded are those of addition lines only: context
\* lines, blank ones included, advance the counter by one and are never
\* recorded, and the number of positions of a change is the number of its
\* addition lines that follow a valid hunk header.
C14_OnlyAdditionsAreRecorded ==
    (op = "extract_review_positions" /\ pc = "done") =>
        /\ outcome = "returned"
        /\ Len(result) = AdditionCount(args.changes, 1)
        /\ (Len(args.changes) = 1 /\ "diff" \in DOMAIN args.changes[1]
              /\ TruthyText(args.changes[1].diff)
              /\ TruthyStr(ChangePath(args.changes[1]))) =>
              LET ls == splitlines(args.changes[1].diff)
              IN  /\ LinesOf(result) = CountersOfAdditions(ls)
                  /\ \A k \in 1..Len(result) :
                        /\ result[k].path = ChangePath(args.changes[1])
                        /\ AdditionLine(ls[Nth(GovernedAdditions(ls), k)])

\* witness: a context line and a blank line advance the counter, the one
\* addition after them is the one position
C14_Witness ==
    /\ op = "extract_review_positions"
    /\ pc = "done"
    /\ args.changes = <<[new_path |-> "biz/demo.py",
                         diff |-> JoinLines(<<HunkAtTwelve, <<" ", "c">>, <<>>,
                                              <<"+", "a">>>>)]>>
    /\ result = <<[path |-> "biz/demo.py", line |-> 14]>>

--------------------------------------------------------------------------
(* Review text splitter: C15, C16, C17 *)

\* _split_review_to_comments has returned for a review text
SplitDone ==
    /\ op = "split_review_to_comments"
    /\ pc = "done"
    /\ outcome = "returned"
    /\ TruthyText(args.review_result)

\* the lines of a text, delimited by "\n"
TextLines(text) == SplitOn(text, "\n")

\* the characters of a text that are not whitespace
NonSpace(text) == SelectSeq(text, LAMBDA c : c \notin WS)

\* the characters of a list of comments
RECURSIVE Flatten(_)
Flatten(cs) == IF cs = <<>> THEN <<>> ELSE cs[1] \o Flatten(Tail(cs))

\* a is made of characters of b, in their order
RECURSIVE IsSubsequence(_, _)
IsSubsequence(a, b) ==
    IF a = <<>> THEN TRUE
    ELSE IF b = <<>> THEN FALSE
    ELSE IF a[1] = b[1] THEN IsSubsequence(Tail(a), Tail(b))
    ELSE IsSubsequence(a, Tail(b))

\* the line has a score marker somewhere
ContainsScoreMarker(l) == \E i \in 1..Len(l) : l[i] \in ScoreMarkers

\* the line begins with a score marker, after optional whitespace, at most
\* six "#" and optional whitespace
BeginsWithScoreMarker(l) ==
    \E a, b, c \in 1..Len(l) :
       /\ a <= b /\ b <= c /\ b - a <= 6
       /\ \A i \in 1..(a - 1) : l[i] \in WS
       /\ \A i \in a..(b - 1) : l[i] = "#"
       /\ \A i \in b..(c - 1) : l[i] \in WS
       /\ l[c] \in ScoreMarkers

\* index of the first line of the set, which is not empty
FirstOf(S) == CHOOSE k \in S : \A j \in S : k <= j

\* the comments are made only of text of the lines before line k
DerivedFromLinesBefore(cs, ls, k) ==
    IsSubsequence(NonSpace(Flatten(cs)), NonSpace(JoinLines(SubSeq(ls, 1, k - 1))))

\* C15 as stated: when a line of the review text contains a score marker,
\* _split_review_to_comments returns only comments derived from the text
\* before the first such line.
C15_NothingFromScoringSection ==
    SplitDone =>
        LET ls == TextLines(args.review_result)
            S == {k \in 1..Len(ls) : ContainsScoreMarker(ls[k])}
        IN  S # {} => DerivedFromLinesBefore(result, ls, FirstOf(S))

\* C15 amended: when a line of the review text begins with a score marker
\* (after optional whitespace and at most six "#"), the comments returned
\* are derived only from the text before the first such line, and are those
\* returned for the text cut after that line.
C15_NothingFromScoreHeadingOn ==
    SplitDone =>
        LET ls == TextLines(args.review_result)
            S == {k \in 1..Len(ls) : BeginsWithScoreMarker(ls[k])}
        IN  S # {} =>
              /\ DerivedFromLinesBefore(result, ls, FirstOf(S))
              /\ result = split_review_to_comments(JoinLines(SubSeq(ls, 1, FirstOf(S))))

\* witness: a bullet, the score heading and a bullet after it, which is
\* not returned
C15_Witness ==
    /\ SplitDone
    /\ args.review_result
         = JoinLines(<<<<"-", " ", "b">>, <<" ", "#", "#", " ", "score-detail">>,
                       <<"3", ")", "g">>>>)
    /\ result = <<<<"b">>>>

\* the trimmed non-empty lines of the text after truncation
LinesAfterTruncation(text) ==
    StrippedLines(splitlines(TruncateScore(StripAutoPrefix(Strip(text)))), 1)

\* the line starts with "-", "*" or "+" and whitespace
StartsWithBullet(l) == Len(l) >= 2 /\ l[1] \in {"-", "*", "+"} /\ l[2] \in WS

\* number of digits the line starts with
LeadingDigits(l) ==
    Cardinality({d \in 1..Len(l) : \A i \in 1..d : l[i] \in Digits})

\* the line starts with digits followed by one of the separators
StartsWithOrdered(l, seps) ==
    /\ LeadingDigits(l) >= 1
    /\ LeadingDigits(l) < Len(l)
    /\ l[LeadingDigits(l) + 1] \in seps

\* what follows the marker, trimmed
Remainder(l) ==
    IF StartsWithBullet(l) THEN Strip(From(l, 2))
    ELSE Strip(From(l, LeadingDigits(l) + 2))

\* the separators the claim names, and those without the full-width period
ClaimedSeps == {".", "fullwidth-period", "ideographic-comma", ")"}
PatternSeps == {".", "ideographic-comma", ")"}

\* the line has a list marker, with one of the separators for an ordered
\* one, and text after it
ListLine(l, seps) ==
    (StartsWithBullet(l) \/ StartsWithOrdered(l, seps)) /\ Remainder(l) # <<>>

\* the remainders of the list lines from index i on
RECURSIVE Remainders(_, _, _)
Remainders(ls, i, seps) ==
    IF i > Len(ls) THEN <<>>
    ELSE (IF ListLine(ls[i], seps) THEN <<Remainder(ls[i])>> ELSE <<>>)
         \o Remainders(ls, i + 1, seps)

\* C16 as stated: if after truncation a line starts with a bullet marker or
\* with digits followed by ".", a full-width period, an ideographic comma or
\* ")", the result is exactly the remainders of all such lines, in order.
C16_ListLinesAreTheComments ==
    SplitDone =>
        LET ls == LinesAfterTruncation(args.review_result)
        IN  (\E i \in 1..Len(ls) : ListLine(ls[i], ClaimedSeps))
              => result = Remainders(ls, 1, ClaimedSeps)

\* C16 amended: the separators of an ordered item are ".", the ideographic
\* comma and ")"; a full-width period makes no list line.
C16_PatternLinesAreTheComments ==
    SplitDone =>
        LET ls == LinesAfterTruncation(args.review_result)
        IN  (\E i \in 1..Len(ls) : ListLine(ls[i], PatternSeps))
              => result = Remainders(ls, 1, PatternSeps)

\* witness: an ordered item, a plain line that contributes nothing, and a
\* padded bullet
C16_Witness ==
    /\ SplitDone
    /\ args.review_result
         = JoinLines(<<<<"2", "ideographic-comma", " ", "f">>, <<"a">>,
                       <<" ", "*", " ", "c", " ", " ", "d", " ">>>>)
    /\ result = <<<<"f">>, <<"c", " ", " ", "d">>>>

\* C17 as stated: splitting a comment that the splitter returned gives
\* that comment alone.
C17_SplitIsIdempotent ==
    SplitDone =>
        \A k \in 1..Len(result) : split_review_to_comments(result[k]) = <<result[k]>>

--------------------------------------------------------------------------
(* Comment delivery: C18, C19, C20 *)

\* GITHUB_PR_REVIEW_COMMENT_MAX_COUNT is set and is an integer
Configured == "GITHUB_PR_REVIEW_COMMENT_MAX_COUNT" \in DOMAIN env
                 /\ IntParses(env.GITHUB_PR_REVIEW_COMMENT_MAX_COUNT)
ConfiguredValue == IntValue(env.GITHUB_PR_REVIEW_COMMENT_MAX_COUNT)

\* the maximum the claim names: the configured value, 20 when it is absent,
\* not a number, zero or negative
ClaimedMaximum ==
    IF Configured /\ ConfiguredValue >= 1 THEN ConfiguredValue ELSE 20

\* the maximum with a configured value below one counted as one
FlooredMaximum ==
    IF ~Configured THEN 20 ELSE IF ConfiguredValue >= 1 THEN ConfiguredValue ELSE 1

\* the inline requests so far carry the first comments, in order, never more
\* than M of them, and all of the first M once the operation has returned
\* from the inline path
DeliversFirst(M) ==
    LET all == InitialComments(args.review_result)
        n == Min(Len(all), M)
    IN  /\ Len(InlineCalls) <= n
        /\ \A i \in 1..Len(InlineCalls) : InlineCalls[i].request.body = all[i]
        /\ (pc = "done" /\ outcome = "returned" /\ InlineCalls # <<>>) =>
              Len(InlineCalls) = n

\* the comments kept after the cap are the first M
KeepsFirst(M) ==
    LET all == InitialComments(args.review_result)
    IN  (pc # "start" /\ all # <<>>) => comments = SubSeq(all, 1, Min(Len(all), M))

\* C18 as stated: at most M inline comments are delivered, the first M in
\* order, where M is the configured maximum and 20 when that is absent,
\* not a number, zero or negative.
C18_AtMostMaxInlineComments ==
    op = "add_pull_request_notes" => DeliversFirst(ClaimedMaximum)

\* C18 amended: M is 20 when the maximum is absent or not a number, and 1
\* when it is a number below one.
C18_AtMostFlooredMaxInlineComments ==
    op = "add_pull_request_notes" =>
        DeliversFirst(FlooredMaximum) /\ KeepsFirst(FlooredMaximum)

\* witness: five comments, a maximum of 2, two inline requests and the end
C18_Witness ==
    /\ op = "add_pull_request_notes"
    /\ pc = "done"
    /\ outcome = "returned"
    /\ Configured
    /\ ConfiguredValue = 2
    /\ Len(InitialComments(args.review_result)) = 5
    /\ Len(InlineCalls) = 2
    /\ InlineCalls[2].request.body = <<"b">>

\* the text is made of whitespace only
OnlyWhitespace(t) == t # NoneText /\ \A i \in 1..Len(t) : t[i] \in WS

\* C19 as stated: add_pull_request_notes makes no outbound call when the
\* review text is None, empty or only whitespace.
C19_NoCallForBlankReview ==
    (/\ op = "add_pull_request_notes"
     /\ (args.review_result = NoneText \/ OnlyWhitespace(args.review_result))
     /\ pc = "done"
     /\ outcome = "returned")
    => calls = <<>>

\* the text has a blank line between two of its lines
HasBlankLine(t) ==
    LET ls == SplitOn(t, "\n")
    IN  \E k \in 2..(Len(ls) - 1) : \A i \in 1..Len(ls[k]) : ls[k][i] \in WS

\* C20 as stated: the body of an inline comment request has no blank line,
\* also when splitting yields nothing and the whole trimmed text is used.
C20_InlineBodyHasNoBlankLine ==
    op = "add_pull_request_notes" =>
        \A i \in 1..Len(InlineCalls) :
           Answered(InlineCalls[i]) => ~HasBlankLine(InlineCalls[i].request.body)

--------------------------------------------------------------------------
(* filter_changes: C21 *)

\* the text is one or more digits
AllDigits(t) == t # <<>> /\ \A i \in 1..Len(t) : t[i] \in Digits

\* the first line of the diff is a hunk header with the new range "+0,0":
\* "@@ -a +0,0 @@" or "@@ -a,b +0,0 @@"
ZeroNewRange(diff) ==
    LET header == SplitOn(diff, "\n")[1]
    IN  \E n \in 1..Len(header) :
           /\ StartsWith(header, <<"@", "@", " ", "-">>)
           /\ n > 4
           /\ LET old == SplitOn(SubSeq(header, 5, n), ",")
              IN  Len(old) \in {1, 2} /\ \A k \in 1..Len(old) : AllDigits(old[k])
           /\ StartsWith(From(header, n + 1), <<" ", "+", "0", ",", "0", " ", "@", "@">>)

\* every line after the first is a deletion or blank
BodyOnlyDeletions(diff) ==
    LET ls == SplitOn(diff, "\n")
    IN  \A k \in 2..Len(ls) : ls[k] = <<>> \/ ls[k][1] = "-"

\* the record is a deletion: marked removed, or a "+0,0" hunk of deletions
DeletionRecord(c) ==
    \/ ("status" \in DOMAIN c /\ c.status = "removed")
    \/ /\ "diff" \in DOMAIN c
       /\ TruthyText(c.diff)
       /\ ZeroNewRange(c.diff)
       /\ BodyOnlyDeletions(c.diff)

\* the record has a path, a string
HasPath(c) == "new_path" \in DOMAIN c /\ c.new_path # None

\* the path ends with one of the extensions
PathSupported(c, exts) ==
    \E k \in 1..Len(exts) : EndsWith(PathText(c.new_path), exts[k])

\* the four fields of a record, with the defaults of an absent one
FourFieldRecord(c) ==
    [diff |-> IF "diff" \in DOMAIN c THEN c.diff ELSE <<>>,
     new_path |-> c.new_path,
     additions |-> IF "additions" \in DOMAIN c THEN c.additions ELSE 0,
     deletions |-> IF "deletions" \in DOMAIN c THEN c.deletions ELSE 0]

\* in input order, the four fields of the records that are not deletions
\* and whose path is supported
RECURSIVE KeptRecords(_, _)
KeptRecords(cs, exts) ==
    IF cs = <<>> THEN <<>>
    ELSE (IF ~DeletionRecord(cs[1]) /\ PathSupported(cs[1], exts)
          THEN <<FourFieldRecord(cs[1])>> ELSE <<>>)
         \o KeptRecords(Tail(cs), exts)

\* C21 as stated, for input records that all have a path: filter_changes
\* returns, in input order, exactly the four-field projection of the
\* records that are not deletions (not marked removed, not a "+0,0" hunk
\* whose body lines are all deletions or blank) and whose path ends with a
\* supported extension.
C21_FilterIsExactProjection ==
    (/\ op = "filter_changes"
     /\ pc = "done"
     /\ \A i \in 1..Len(args.changes) : HasPath(args.changes[i]))
    => /\ outcome = "returned"
       /\ result = KeptRecords(args.changes, supported_extensions(env))

--------------------------------------------------------------------------
(* Construction: C22 *)

\* the field is absent from the record, or null: a record, an identifier
\* and a list
AbsentOrNullRecord(d, key) == key \notin DOMAIN d \/ IsNull(d[key])
AbsentOrNull(d, key) == key \notin DOMAIN d \/ d[key] = None
AbsentOrNullList(d, key) == key \notin DOMAIN d \/ d[key] = NoneList

\* the field of the nested record is absent or null, the nested record
\* being there
NestedAbsentOrNull(d, key, field) ==
    ~AbsentOrNullRecord(d, key) /\ AbsentOrNull(d[key], field)

\* the attribute is None or empty: an identifier and a list
NoneOrEmpty(v) == v = None \/ v = ""
NoneOrEmptyList(v) == v = NoneList \/ v = <<>>

\* C22 as stated: constructing a handler on a payload in which repository,
\* repository.full_name, pull_request, pull_request.number, action, ref or
\* commits is absent or null raises no error, and the attribute of such a
\* field is None or empty.
C22_ConstructionNeverFails ==
    (op \in ConstructOps /\ pc = "done") =>
        /\ outcome = "returned"
        /\ (AbsentOrNullRecord(webhook_data, "repository")
              \/ NestedAbsentOrNull(webhook_data, "repository", "full_name"))
             => NoneOrEmpty(result.repo_full_name)
        /\ op = "PullRequestHandler" =>
             /\ (AbsentOrNullRecord(webhook_data, "pull_request")
                   \/ NestedAbsentOrNull(webhook_data, "pull_request", "number"))
                  => NoneOrEmpty(result.pull_request_number)
             /\ AbsentOrNull(webhook_data, "action") => NoneOrEmpty(result.action)
        /\ op = "PushHandler" =>
             /\ AbsentOrNull(webhook_data, "ref") => NoneOrEmpty(result.branch_name)
             /\ AbsentOrNullList(webhook_data, "commits")
                  => NoneOrEmptyList(result.commit_list)

--------------------------------------------------------------------------
(* Retry delay: C23 *)

SleepEntries == CallsOf("sleep")

\* C23 as stated: in get_pull_request_changes every sleep is followed by
\* another list-files call, so that a finished run of k attempts has slept
\* k-1 times, and a run that ends with the third empty 200 response does
\* not sleep after it.
C23_SleepOnlyBetweenAttempts ==
    (op = "get_pull_request_changes" /\ pc = "done") =>
        /\ \A i \in 1..Len(calls) :
              calls[i].call = "sleep" =>
                 i < Len(calls) /\ calls[i + 1].call = "list_files"
        /\ Len(SleepEntries) = Len(CallsOf("list_files")) - 1


--------------------------------------------------------------------------
(* add_pull_request_notes, the delivery loop: C24 *)

\* the comments the invocation has to deliver, from its arguments
CappedComments == CapComments(InitialComments(args.review_result), env)

\* the invocation is on the inline path: a head commit id and a position
OnInlinePath == op = "add_pull_request_notes" /\ HasHeadSha /\ ~NoPositions

\* C24: on the inline path the inline requests are the first entries of the
\* call log and the i-th carries the i-th capped comment, the head commit id
\* of the payload and side RIGHT; whatever the status of a response, the
\* next comment is sent next, so that a run whose inline requests were all
\* answered sends exactly one per capped comment; the aggregate comment is
\* posted at most once and only when every capped comment has been sent.
C24_OneInlineRequestPerComment ==
    OnInlinePath =>
        LET n == Len(InlineCalls)
        IN  /\ n <= Len(CappedComments)
            /\ \A i \in 1..n :
                  /\ calls[i].call = "inline_comment"
                  /\ calls[i].request.body = CappedComments[i]
                  /\ calls[i].request.commit_id = webhook_data.pull_request.head.sha
                  /\ calls[i].request.side = "RIGHT"
            /\ (pc # "start" /\ \A i \in 1..n : Answered(calls[i])) =>
                  IF n < Len(CappedComments)
                  THEN pc = "inline_comment" /\ IssueCalls = <<>>
                  ELSE pc \in {"issue_comment", "done"}
            /\ Len(IssueCalls) <= 1
            /\ IssueCalls # <<>> =>
                  /\ n = Len(CappedComments)
                  /\ calls[Len(calls)].call = "issue_comment"

\* three comments or more: the first refused, a later one created, every
\* one sent once and no aggregate comment
C24_Witness ==
    /\ OnInlinePath
    /\ pc = "done"
    /\ outcome = "returned"
    /\ Len(InlineCalls) >= 3
    /\ Len(InlineCalls) = Len(CappedComments)
    /\ AnsweredWith(InlineCalls[1], 403)
    /\ \E i \in 2..Len(InlineCalls) : AnsweredWith(InlineCalls[i], 201)
    /\ IssueCalls = <<>>

--------------------------------------------------------------------------
(* Two events side by side: C25 *)

\* the responses an instance has received, in order
ResponsesOf(h) ==
    LET remote == SelectSeq(h.calls, LAMBDA c : c.call # "sleep")
    IN  [i \in 1..Len(remote) |-> remote[i].resp]

\* the instance an event gets when it is processed alone and its calls are
\* answered with rs, one after the other
RECURSIVE AloneRun(_, _)
AloneRun(h, rs) ==
    IF rs = <<>> \/ h.pc # "ready" \/ HandlerSkips(h) THEN h
    ELSE AloneRun(Receive(Issue(h), Head(rs)), Tail(rs))

====
